---------------------------- MODULE Spec2Model ----------------------------
(***************************************************************************)
(* A model of the query-answering pipelines of the ragui repository:       *)
(*   scripts/rag/postgres_rag.py   (postgres_rag and its three steps)      *)
(*   scripts/rag/rag_BASF.py       (document_rag and its three steps)      *)
(*   scripts/rag/rag_retrieval.py  (movie_rag and its three steps)         *)
(*   scripts/rag/rag_retriever.py  (retrieve_and_format_context)           *)
(*   scripts/rag/rag_generator.py  (generate_response_from_context)        *)
(*   scripts/tab1/chat.py          (the chat page's input handler)         *)
(*                                                                         *)
(* Representation of Python values.                                        *)
(*   - A str that the code inspects (strip, slicing, len) is a sequence of *)
(*     characters; " " is the whitespace character.                        *)
(*   - A path is the sequence str.split('/') yields, so "/a/b.pdf" is      *)
(*     <<"", "a", "b.pdf">> and the empty str is <<"">>.                   *)
(*   - An optional value is None or Some(v); a missing dict key is Missing.*)
(*   - An insertion-ordered dict is a sequence of <<key, value>> pairs     *)
(*     with pairwise distinct keys.                                        *)
(*   - The external collaborators (LLM endpoint, embedding call, vector    *)
(*     store, search_vdb, init_vector_db, the JSON mapping file) are the   *)
(*     environment: each call nondeterministically fails or returns one of *)
(*     a small set of results.                                             *)
(***************************************************************************)
EXTENDS Integers, Sequences, FiniteSets, TLC

VARIABLES
    entry,              \* the function the caller invoked
    pc,                 \* position inside that invocation
    user_request,       \* argument: the user's question
    chat_history,       \* argument: list of prior turns
    filters,            \* argument: FilterSpec (document_rag, movie_rag)
    rephrased,          \* local: result of rephrase_question
    matching_documents, \* local: result of the retriever
    response,           \* local: result of the generator
    unique_sources,     \* local: the source map being built
    result,             \* what the invocation handed to its caller
    llm_calls,          \* every LLM completion request issued so far
    store_queries,      \* every query sent to the vector store so far
    faults,             \* the environment failures that happened in this run
    app,                \* which program is loaded: the rag scripts or the chat page
    config,             \* module-level availability flags, set at import
    messages,           \* st.session_state.messages of the chat page
    context_block,      \* local: context block of retrieve_and_format_context
    retrieved_sources,  \* local: source map of retrieve_and_format_context
    final_response_dict,\* local: what the structured generator returned
    session,            \* the database session of the retriever
    port,               \* file server: local port of run_server
    port_file,          \* file server: content of ~/file_server_port.txt
    httpd,              \* file server: the port its HTTPServer is bound to
    taken,              \* file server: ports other processes listen on
    races,              \* file server: ports other processes took meanwhile
    session_state,      \* clustering page: the cluster_data_* session keys
    computed,           \* clustering page: every compute_clusters call so far
    shown,              \* clustering page: what the last render displayed
    renders             \* clustering page: renders of this session so far

orch_vars == <<entry, pc, user_request, chat_history, filters, rephrased,
               matching_documents, response, unique_sources, result,
               llm_calls, store_queries, faults>>

chat_vars == <<app, config, messages, context_block, retrieved_sources,
               final_response_dict, session>>

server_vars == <<port, port_file, httpd, taken, races>>

cluster_vars == <<session_state, computed, shown, renders>>

side_vars == <<server_vars, cluster_vars>>

-----------------------------------------------------------------------------
(* Optional values *)

None == [t |-> "none"]
Missing == [t |-> "missing"]
Some(v) == [t |-> "some", v |-> v]

-----------------------------------------------------------------------------
(* Bounds of the model *)

\* most hits one store query returns
MaxHits == 3
\* most entries in a FilterSpec
MaxFilters == 2

-----------------------------------------------------------------------------
(* str helpers *)

RECURSIVE LStrip(_)
LStrip(s) == IF s # <<>> /\ Head(s) = " " THEN LStrip(Tail(s)) ELSE s

RECURSIVE RStrip(_)
RStrip(s) ==
    IF s # <<>> /\ s[Len(s)] = " " THEN RStrip(SubSeq(s, 1, Len(s) - 1)) ELSE s

\* str.strip()
Strip(s) == RStrip(LStrip(s))

Min(a, b) == IF a <= b THEN a ELSE b

\* s[:n]
Prefix(s, n) == SubSeq(s, 1, Min(n, Len(s)))

\* the keys of an insertion-ordered dict, in insertion order
Keys(d) == [i \in 1..Len(d) |-> d[i][1]]

\* a membership test that looks at the newest entry only
HasKeyLast(d, k) == d # <<>> /\ d[Len(d)][1] = k

HasKey(d, k) == \E i \in 1..Len(d) : d[i][1] = k

\* d[k] = v for a key that is not in d yet
Insert(d, k, v) == Append(d, <<k, v>>)

-----------------------------------------------------------------------------
(* Fixed texts and program constants *)

\* postgres_rag.py:153 and :214, rag_BASF.py:180
NoInfoMsg ==
    <<"I couldn't find any relevant information. Please try rephrasing your query or broadening the search.">>

\* rag_retrieval.py:179
NoMoviesMsg ==
    <<"I couldn't find any movies matching your criteria. Can you try with different preferences or fewer restrictions?">>

\* the marker appended to a truncated excerpt
Ellipsis == <<".", ".", ".">>

\* doc['content'][:500]
PgContentCap == 500
\* doc['chunk_text'][:300]
BasfContentCap == 300
\* top_n of postgres_rag, document_rag and movie_rag
TopN == 5

-----------------------------------------------------------------------------
(* The static path-mapping table (store_clean_test.json):                  *)
(* filename key -> {file_path, real_path}.  Three shapes of entry occur in *)
(* the model: a full entry, an entry without real_path, and no entry.      *)

PathA == <<"", "data", "projects", "filefindr", "a.pdf">>
PathB == <<"", "srv", "docs", "b.pdf">>
PathC == <<"", "srv", "docs", "c.pdf">>
RealA == <<"real", "a.pdf">>

store_data ==
    << <<"a.pdf", [file_path |-> Some(PathA), real_path |-> Some(RealA)]>>,
       <<"b.pdf", [file_path |-> Some(PathB), real_path |-> Missing]>> >>

\* dict.get(key, {}) on the mapping table
StoreGet(table, key) ==
    IF HasKey(table, key)
    THEN (CHOOSE i \in 1..Len(table) : table[i][1] = key)
    ELSE 0

-----------------------------------------------------------------------------
(* Paths *)

FilefindrPrefix == <<"", "data", "projects", "filefindr">>
DocumentBatchPrefix == <<"", "shared_folders", "team_1", "document_batch">>

\* p.startswith(prefix + "/")
StartsWithDir(p, prefix) ==
    /\ Len(p) > Len(prefix)
    /\ SubSeq(p, 1, Len(prefix)) = prefix

\* p.startswith("/")
StartsWithSlash(p) == Len(p) >= 2 /\ p[1] = ""

\* p.endswith(name), on whole path components
EndsWith(p, name) ==
    /\ Len(name) <= Len(p)
    /\ SubSeq(p, Len(p) - Len(name) + 1, Len(p)) = name

\* a non-empty str
Truthy(p) == p # <<"">>

-----------------------------------------------------------------------------
(* search_vdb results as postgres_rag.retrieve_documents reads them.       *)
(* A row-tuple has the column order id, chunkid, description, category,    *)
(* md, filepath, markdown, embedding, score; a mapping has the keys id,    *)
(* chunkid, filepath, markdown, score.                                     *)

PgRow(id, fp, content, score, ncols) ==
    [kind |-> "tuple",
     cols |-> SubSeq(<<Some(id), Some(id), None, None, None, fp, content,
                       None, score>>, 1, ncols)]

PgMap(id, fp, content, score) ==
    [kind |-> "dict",
     d |-> [id |-> Some(id), chunkid |-> Some(id), filepath |-> fp,
            markdown |-> content, score |-> score]]

PgHits ==
    { PgRow(1, Some(PathA), Some(<<"x">>), Some(9), 9),
      PgRow(2, Some(PathA), Some(<<"y", "y">>), Some(8), 9),
      PgRow(3, Some(PathC), Some(<<" ">>), None, 8),
      PgRow(4, Some(PathB), Some(<<"w">>), None, 5),
      PgMap(5, Some(PathB), Some(<<"z">>), Some(7)),
      PgMap(6, Missing, Missing, Missing),
      PgMap(7, None, Some(<<"v">>), Some(6)),
      [kind |-> "other"] }

PgHitLists == UNION { [1..n -> PgHits] : n \in 0..MaxHits }

\* dict.get(key, default)
Get(v, default) == IF v = Missing THEN default ELSE v

\* postgres_rag.retrieve_documents, lines 96-141: one result of search_vdb.
\* A row-tuple shorter than 7 columns raises IndexError, a null filepath
\* raises AttributeError at .startswith; any other shape is skipped.
PgNormalize(hit, table) ==
    IF hit.kind \notin {"tuple", "dict"} THEN [r |-> "skip"]
    ELSE IF hit.kind = "tuple" /\ Len(hit.cols) < 7 THEN [r |-> "raise"]
    ELSE
      LET isrow == hit.kind = "tuple"
          doc_id == IF isrow THEN hit.cols[1] ELSE hit.d.id
          chunk_id == IF isrow THEN hit.cols[2] ELSE hit.d.chunkid
          filepath == IF isrow THEN hit.cols[6]
                      ELSE Get(hit.d.filepath, Some(<<"">>))
          content == IF isrow THEN hit.cols[7]
                     ELSE Get(hit.d.markdown, Some(<<>>))
          score == IF isrow
                   THEN (IF Len(hit.cols) > 8 THEN hit.cols[9] ELSE None)
                   ELSE Get(hit.d.score, None)
      IN IF filepath = None THEN [r |-> "raise"]
         ELSE
           LET fp == filepath.v
               local_path ==
                   IF StartsWithDir(fp, FilefindrPrefix)
                   THEN DocumentBatchPrefix
                          \o SubSeq(fp, Len(FilefindrPrefix) + 1, Len(fp))
                   ELSE fp
               file_key == IF Truthy(fp) THEN fp[Len(fp)] ELSE "Unknown"
               at == StoreGet(table, file_key)
               real_path ==
                   IF at = 0 THEN local_path
                   ELSE Get(table[at][2].real_path, Some(local_path)).v
           IN [r |-> "doc",
               doc |-> [id |-> doc_id, chunk_id |-> chunk_id,
                        filepath |-> fp, local_path |-> local_path,
                        real_path |-> real_path, content |-> content,
                        similarity_score |-> score]]

\* postgres_rag.retrieve_documents, lines 93-143: the loop over the results
RECURSIVE PgFormat(_, _, _)
PgFormat(hits, table, documents) ==
    IF hits = <<>> THEN [raised |-> FALSE, docs |-> documents]
    ELSE LET n == PgNormalize(Head(hits), table)
         IN CASE n.r = "raise" -> [raised |-> TRUE, docs |-> <<>>]
              [] n.r = "skip" -> PgFormat(Tail(hits), table, documents)
              [] OTHER -> PgFormat(Tail(hits), table, Append(documents, n.doc))

-----------------------------------------------------------------------------
(* FilterSpec and the where clause sent to the ChromaDB collection.        *)
(* A FilterSpec is a dict field -> value, a value being a literal or a     *)
(* dict of range operators; None and {} are both falsy and both <<>> here. *)

Lit(v) == [t |-> "lit", v |-> v]
Range(ops) == [t |-> "range", ops |-> ops]

FilterEntries ==
    { <<"rating", Lit("PG")>>,
      <<"type", Lit("Movie")>>,
      <<"release_year", Range(<< <<"gt", 2015>> >>)>>,
      <<"release_year", Range(<< <<"gte", 2015>>, <<"lt", 2020>> >>)>>,
      <<"release_year", Range(<< <<"between", 2015>> >>)>>,
      <<"pages", Range(<< <<"lte", 5>> >>)>> }

DistinctKeys(d) == \A i, j \in 1..Len(d) : d[i][1] = d[j][1] => i = j

FilterSpecs ==
    { f \in UNION { [1..n -> FilterEntries] : n \in 0..MaxFilters } :
        DistinctKeys(f) }

\* one condition dict {key: value}
Cond(key, value) == [key |-> key, value |-> value]

\* rag_retrieval.py:62-70: the conditions one release_year range dict yields
RECURSIVE RangeConditions(_, _)
RangeConditions(key, ops) ==
    IF ops = <<>> THEN <<>>
    ELSE LET op == Head(ops)[1]
             val == Head(ops)[2]
             rest == RangeConditions(key, Tail(ops))
         IN CASE op = "gt" -> <<Cond(key, Range(<< <<"$gt", val>> >>))>> \o rest
              [] op = "lt" -> <<Cond(key, Range(<< <<"$lt", val>> >>))>> \o rest
              [] op = "gte" -> <<Cond(key, Range(<< <<"$gte", val>> >>))>> \o rest
              [] op = "lte" -> <<Cond(key, Range(<< <<"$lte", val>> >>))>> \o rest
              [] OTHER -> rest

\* rag_retrieval.py:58-72: the conditions list of retrieve_movies
RECURSIVE MovieConditions(_)
MovieConditions(filter_params) ==
    IF filter_params = <<>> THEN <<>>
    ELSE LET key == Head(filter_params)[1]
             value == Head(filter_params)[2]
             rest == MovieConditions(Tail(filter_params))
         IN IF value.t = "range" /\ key = "release_year"
            THEN RangeConditions(key, value.ops) \o rest
            ELSE <<Cond(key, value)>> \o rest

\* rag_BASF.py:71-73: the conditions list of retrieve_documents
BasfConditions(filter_params) ==
    [i \in 1..Len(filter_params) |->
        Cond(filter_params[i][1], filter_params[i][2])]

\* a where clause: None, one condition dict, or {"$and": conditions}
One(c) == [t |-> "cond", c |-> c]
And(cs) == [t |-> "and", conds |-> cs]

\* a where clause that wraps any non-empty conditions list in $and
MovieWhereAlwaysAnd(filter_params) ==
    IF MovieConditions(filter_params) = <<>> THEN None
    ELSE And(MovieConditions(filter_params))

\* rag_retrieval.py:56-78
MovieWhere(filter_params) ==
    IF filter_params = <<>> THEN None
    ELSE LET conditions == MovieConditions(filter_params)
         IN IF Len(conditions) > 1 THEN And(conditions)
            ELSE IF Len(conditions) = 1 THEN One(conditions[1])
            ELSE None

\* rag_BASF.py:69-77
BasfWhere(filter_params) ==
    IF filter_params = <<>> THEN None
    ELSE LET conditions == BasfConditions(filter_params)
         IN IF Len(conditions) = 1 THEN One(conditions[1])
            ELSE IF conditions # <<>> THEN And(conditions)
            ELSE None

-----------------------------------------------------------------------------
(* collection.query results (ChromaDB): ids, metadatas, documents,         *)
(* distances, read position by position.                                   *)

BasfHits ==
    { [id |-> "d1", source_file |-> Some(<<"a.pdf">>), document |-> <<"x">>,
       distance |-> 1],
      [id |-> "d2", source_file |-> Some(<<"a.pdf">>), document |-> <<"y">>,
       distance |-> 2],
      [id |-> "d3", source_file |-> Some(<<"b.pdf">>), document |-> <<"z">>,
       distance |-> 3],
      [id |-> "d4", source_file |-> Some(<<"c.pdf">>), document |-> <<"w">>,
       distance |-> 4],
      [id |-> "d5", source_file |-> Missing, document |-> <<" ">>,
       distance |-> 5] }

BasfHitLists == UNION { [1..n -> BasfHits] : n \in 0..MaxHits }

\* rag_BASF.py:104-111: the first mapping entry whose file_path ends with
\* the source file name decides real_path (entry.get("real_path"))
RECURSIVE BasfRealPath(_, _)
BasfRealPath(table, source_file) ==
    IF table = <<>> THEN None
    ELSE LET e == Head(table)[2]
         IN IF e.file_path # Missing /\ e.file_path # None
               /\ EndsWith(e.file_path.v, source_file)
            THEN Get(e.real_path, None)
            ELSE BasfRealPath(Tail(table), source_file)

\* a formatter that returns the chunks last hit first
BasfFormatReversed(hits, table) ==
    [i \in 1..Len(hits) |->
        LET hit == hits[Len(hits) + 1 - i]
            source_file == Get(hit.source_file, Some(<<"Unknown">>)).v
        IN [id |-> hit.id,
            source_file |-> source_file,
            real_path |-> IF source_file # <<"Unknown">>
                          THEN BasfRealPath(table, source_file)
                          ELSE None,
            chunk_text |-> hit.document,
            similarity_score |-> hit.distance]]

\* rag_BASF.py:99-121
BasfFormat(hits, table) ==
    [i \in 1..Len(hits) |->
        LET source_file == Get(hits[i].source_file, Some(<<"Unknown">>)).v
        IN [id |-> hits[i].id,
            source_file |-> source_file,
            real_path |-> IF source_file # <<"Unknown">>
                          THEN BasfRealPath(table, source_file)
                          ELSE None,
            chunk_text |-> hits[i].document,
            similarity_score |-> hits[i].distance]]

Alphabet == <<"a", "b", "c", "d", "e", "f", "g">>

\* a text of n characters; texts of different lengths differ from their
\* first character on
Text(n) == [i \in 1..n |-> Alphabet[((i + n) % Len(Alphabet)) + 1]]

\* a description longer than any excerpt the document generators write
LongDescription == Text(PgContentCap + Len(Ellipsis) + 1)

\* a movie hit; complete says whether its metadata holds title, type,
\* release_year and rating
MovieHits ==
    { [id |-> "m1", complete |-> TRUE, document |-> <<"x">>, distance |-> 1],
      [id |-> "m2", complete |-> TRUE, document |-> LongDescription,
        distance |-> 2],
      [id |-> "m3", complete |-> FALSE, document |-> <<"z">>, distance |-> 3] }

MovieHitLists == UNION { [1..n -> MovieHits] : n \in 0..MaxHits }

\* rag_retrieval.py:102-114: a missing metadata key raises KeyError
MovieFormat(hits) ==
    IF \E i \in 1..Len(hits) : ~hits[i].complete
    THEN [raised |-> TRUE, docs |-> <<>>]
    ELSE [raised |-> FALSE,
          docs |-> [i \in 1..Len(hits) |->
                      [id |-> hits[i].id,
                       description |-> hits[i].document,
                       similarity_score |-> hits[i].distance]]]

-----------------------------------------------------------------------------
(* Context blocks of the three free-text generators.  A block is the       *)
(* sequence of the excerpts appended to it, one per document; the empty    *)
(* block is the empty str.                                                 *)

\* an excerpt that marks a content of exactly cap characters as cut
TruncateAtCap(content, cap) ==
    Prefix(content, cap) \o (IF Len(content) >= cap THEN Ellipsis ELSE <<>>)

\* content[:cap] followed by '...' when len(content) > cap
Truncate(content, cap) ==
    Prefix(content, cap) \o (IF Len(content) > cap THEN Ellipsis ELSE <<>>)

\* postgres_rag.py:156-163.  A null content raises TypeError at the slice.
PgDocBlock(documents) ==
    IF \E i \in 1..Len(documents) : documents[i].content = None
    THEN [raised |-> TRUE, block |-> <<>>]
    ELSE [raised |-> FALSE,
          block |-> [i \in 1..Len(documents) |->
                       [index |-> i,
                        source |-> documents[i].filepath,
                        content |-> Truncate(documents[i].content.v,
                                             PgContentCap),
                        score |-> documents[i].similarity_score]]]

\* rag_BASF.py:131-136
BasfDocBlock(documents) ==
    [i \in 1..Len(documents) |->
        [index |-> i,
         source |-> documents[i].source_file,
         content |-> Truncate(documents[i].chunk_text, BasfContentCap),
         score |-> Some(documents[i].similarity_score)]]

\* rag_retrieval.py:127-131
MovieBlock(movies) ==
    [i \in 1..Len(movies) |->
        [index |-> i,
         source |-> movies[i].id,
         content |-> movies[i].description,
         score |-> Some(movies[i].similarity_score)]]

-----------------------------------------------------------------------------
(* Source maps *)

\* postgres_rag.py:219-227
RECURSIVE PgUniqueSources(_, _)
PgUniqueSources(documents, seen) ==
    IF documents = <<>> THEN seen
    ELSE LET doc == Head(documents)
         IN PgUniqueSources(Tail(documents),
                IF ~HasKey(seen, doc.filepath)
                THEN Insert(seen, doc.filepath, doc.real_path)
                ELSE seen)

\* rag_BASF.py:185-193.  doc["real_path"] is always present, so the default
\* "Not Available" is never taken; a None real_path raises AttributeError at
\* .startswith the first time its source file is seen.
RECURSIVE BasfUniqueSources(_, _)
BasfUniqueSources(documents, seen) ==
    IF documents = <<>> THEN [raised |-> FALSE, sources |-> seen]
    ELSE LET doc == Head(documents)
         IN IF HasKey(seen, doc.source_file)
            THEN BasfUniqueSources(Tail(documents), seen)
            ELSE IF doc.real_path = None
            THEN [raised |-> TRUE, sources |-> <<>>]
            ELSE BasfUniqueSources(Tail(documents),
                   Insert(seen, doc.source_file,
                          IF StartsWithSlash(doc.real_path.v)
                          THEN doc.real_path.v
                          ELSE <<"">> \o doc.real_path.v))

-----------------------------------------------------------------------------
(* Inputs and environment outcomes *)

UserQuestions == { <<"u", "q">>, <<"i", "t", "?">> }
Histories == { <<>>, << <<"h", "1">>, <<"h", "2">> >> }

\* what a completion call does: fail, or return this message content
LLMFail == [ok |-> FALSE]
LLMText(s) == [ok |-> TRUE, text |-> s]
RephraseOutcomes == { LLMFail, LLMText(<<"r", "q">>), LLMText(<<" ", "r", "q", " ">>) }
AnswerOutcomes == { LLMFail, LLMText(<<"a">>), LLMText(<<"a", " ">>) }

Orchestrators == {"postgres_rag", "document_rag", "movie_rag"}

\* the module whose functions an entry point runs
Impl(e) ==
    CASE e \in {"postgres_rag", "postgres_rag.generate_document_response"}
           -> "postgres_rag"
      [] e \in {"document_rag", "rag_BASF.generate_document_response"}
           -> "rag_BASF"
      [] OTHER -> "rag_retrieval"

Returned(answer, sources) ==
    [kind |-> "returned", answer |-> answer, sources |-> sources]
Raised(at) == [kind |-> "raised", at |-> at]

\* content lengths on both sides of an excerpt cap
Around(cap) == {cap - 1, cap, cap + 1}

\* hits whose content is about as long as the generator's cap
PgLongHits ==
    { PgRow(n, Some(PathB), Some(Text(n)), Some(5), 9) :
        n \in Around(PgContentCap) }
BasfLongHits ==
    { [id |-> "d9", source_file |-> Some(<<"a.pdf">>), document |-> Text(n),
       distance |-> 1] : n \in Around(BasfContentCap) }

\* the documents a retriever can hand to its generator
PgDocLists ==
    { PgFormat(h, t, <<>>).docs : h \in PgHitLists, t \in {store_data, <<>>} }
      \cup { PgFormat(h, store_data, <<>>).docs :
               h \in UNION { [1..n -> PgLongHits] : n \in 1..MaxHits } }
BasfDocLists ==
    { BasfFormat(h, store_data) : h \in BasfHitLists }
      \cup { BasfFormat(h, store_data) :
               h \in UNION { [1..n -> BasfLongHits] : n \in 1..MaxHits } }

-----------------------------------------------------------------------------
(* The free-text pipelines: postgres_rag, document_rag, movie_rag, and     *)
(* their generators called on their own.                                   *)

\* no invocation in progress, nothing logged
Idle ==
    /\ entry = "none"
    /\ pc = "start"
    /\ user_request = <<>>
    /\ chat_history = <<>>
    /\ filters = <<>>
    /\ rephrased = <<>>
    /\ matching_documents = <<>>
    /\ response = <<>>
    /\ unique_sources = <<>>
    /\ result = [kind |-> "none"]
    /\ llm_calls = <<>>
    /\ store_queries = <<>>
    /\ faults = {}
    /\ context_block = <<>>
    /\ retrieved_sources = <<>>
    /\ final_response_dict = [t |-> "none"]
    /\ session = "none"
    /\ port = None
    /\ port_file = None
    /\ httpd = None
    /\ races = 0
    /\ session_state = <<>>
    /\ computed = <<>>
    /\ shown = None
    /\ renders = 0

\* the caller invokes postgres_rag(user_request, chat_history)
CallPostgresRag ==
    /\ app = "rag"
    /\ pc = "start"
    /\ \E q \in UserQuestions, h \in Histories :
         /\ entry' = "postgres_rag"
         /\ user_request' = q
         /\ chat_history' = h
    /\ pc' = "connecting"
    /\ UNCHANGED <<filters, rephrased, matching_documents, response,
                   unique_sources, result, llm_calls, store_queries, faults>>
    /\ UNCHANGED <<chat_vars, side_vars>>

\* the caller invokes document_rag or movie_rag with a FilterSpec
CallChromaRag ==
    /\ app = "rag"
    /\ pc = "start"
    /\ \E e \in {"document_rag", "movie_rag"}, q \in UserQuestions,
          h \in Histories, f \in FilterSpecs :
         /\ entry' = e
         /\ user_request' = q
         /\ chat_history' = h
         /\ filters' = f
    /\ pc' = "rephrasing"
    /\ UNCHANGED <<rephrased, matching_documents, response, unique_sources,
                   result, llm_calls, store_queries, faults>>
    /\ UNCHANGED <<chat_vars, side_vars>>

\* the caller invokes a generate_document_response(query, documents)
CallGenerate ==
    /\ app = "rag"
    /\ pc = "start"
    /\ \E q \in UserQuestions :
         /\ rephrased' = q
         /\ \/ /\ entry' = "postgres_rag.generate_document_response"
               /\ \E docs \in PgDocLists : matching_documents' = docs
            \/ /\ entry' = "rag_BASF.generate_document_response"
               /\ \E docs \in BasfDocLists : matching_documents' = docs
    /\ pc' = "generating"
    /\ UNCHANGED <<user_request, chat_history, filters, response,
                   unique_sources, result, llm_calls, store_queries, faults>>
    /\ UNCHANGED <<chat_vars, side_vars>>

\* postgres_rag.py:203: init_vector_db(wipe_database=False); its result is
\* not inspected, so a (None, None) answer goes on like a connection.  The
\* session it returns is bound to the local name database, which the
\* function never uses again.
Connect ==
    /\ pc = "connecting"
    /\ \E outcome \in {"ok", "none", "raise"} :
         CASE outcome = "ok" ->
                /\ pc' = "rephrasing"
                /\ session' = "open"
                /\ UNCHANGED <<result, faults>>
           [] outcome = "none" ->
                /\ pc' = "rephrasing"
                /\ faults' = faults \cup {"connect"}
                /\ UNCHANGED <<result, session>>
           [] OTHER ->
                /\ pc' = "done"
                /\ result' = Raised("init_vector_db")
                /\ faults' = faults \cup {"connect"}
                /\ UNCHANGED session
    /\ UNCHANGED <<entry, user_request, chat_history, filters, rephrased,
                   matching_documents, response, unique_sources, llm_calls,
                   store_queries>>
    /\ UNCHANGED <<app, config, messages, context_block, retrieved_sources,
                   final_response_dict, side_vars>>

\* a rephraser that records the question in the history list it was given
rephrase_question_remembering ==
    /\ pc = "rephrasing"
    /\ llm_calls' = Append(llm_calls,
                        [fn |-> "rephrase_question",
                         history |-> chat_history,
                         question |-> user_request])
    /\ chat_history' = Append(chat_history, user_request)
    /\ rephrased' = user_request
    /\ pc' = "retrieving"
    /\ UNCHANGED <<entry, user_request, filters, matching_documents,
                   response, unique_sources, store_queries, result, faults>>
    /\ UNCHANGED <<chat_vars, side_vars>>

\* a rephraser that calls the model a second time when the first call fails
rephrase_question_retrying ==
    LET call == [fn |-> "rephrase_question", history |-> chat_history,
                 question |-> user_request]
    IN /\ pc = "rephrasing"
       /\ \E out \in RephraseOutcomes, again \in RephraseOutcomes :
            LET last == IF out.ok THEN out ELSE again
            IN /\ llm_calls' = llm_calls \o (IF out.ok THEN <<call>>
                                             ELSE <<call, call>>)
               /\ IF last.ok
                  THEN /\ rephrased' = Strip(last.text)
                       /\ pc' = "retrieving"
                       /\ UNCHANGED <<result, faults>>
                  ELSE /\ pc' = "done"
                       /\ result' = Raised("rephrase_question")
                       /\ faults' = faults \cup {"rephrase_llm"}
                       /\ UNCHANGED rephrased
       /\ UNCHANGED <<entry, user_request, chat_history, filters,
                      matching_documents, response, unique_sources,
                      store_queries>>
       /\ UNCHANGED <<chat_vars, side_vars>>

\* rephrase_question (postgres_rag.py:54-70, rag_BASF.py:33-49,
\* rag_retrieval.py:16-32) as called at postgres_rag.py:207, rag_BASF.py:174
\* and rag_retrieval.py:172: one completion call; its failure is not caught
rephrase_question ==
    /\ pc = "rephrasing"
    /\ llm_calls' = Append(llm_calls,
                        [fn |-> "rephrase_question",
                         history |-> chat_history,
                         question |-> user_request])
    /\ \E out \in RephraseOutcomes :
         IF out.ok
         THEN /\ rephrased' = Strip(out.text)
              /\ pc' = "retrieving"
              /\ UNCHANGED <<result, faults>>
         ELSE /\ pc' = "done"
              /\ result' = Raised("rephrase_question")
              /\ faults' = faults \cup {"rephrase_llm"}
              /\ UNCHANGED rephrased
    /\ UNCHANGED <<entry, user_request, chat_history, filters,
                   matching_documents, response, unique_sources,
                   store_queries>>
    /\ UNCHANGED <<chat_vars, side_vars>>

\* one search_vdb call as the store sees it, with what it answered (None when
\* it raised)
SearchVdb(query, n, results) ==
    [fn |-> "search_vdb", query |-> query, where |-> None, n |-> n,
     results |-> results]

\* postgres_rag.retrieve_documents (postgres_rag.py:74-143)
pg_retrieve_documents ==
    /\ pc = "retrieving"
    /\ Impl(entry) = "postgres_rag"
    /\ \/ \* search_vdb raises
          /\ store_queries' = Append(store_queries,
                                 SearchVdb(rephrased, TopN, None))
          /\ pc' = "done"
          /\ result' = Raised("retrieve_documents")
          /\ faults' = faults \cup {"search"}
          /\ UNCHANGED matching_documents
       \/ \E hits \in PgHitLists, loaded \in BOOLEAN :
            LET r == PgFormat(hits, IF loaded THEN store_data ELSE <<>>, <<>>)
            IN /\ store_queries' = Append(store_queries,
                                   SearchVdb(rephrased, TopN, Some(hits)))
               /\ IF r.raised
                  THEN /\ pc' = "done"
                       /\ result' = Raised("retrieve_documents")
                       /\ faults' = faults \cup {"bad_row"}
                       /\ UNCHANGED matching_documents
                  ELSE /\ pc' = "retrieved"
                       /\ matching_documents' = r.docs
                       /\ faults' = IF loaded THEN faults
                                    ELSE faults \cup {"mapping_file"}
                       /\ UNCHANGED result
    /\ UNCHANGED <<entry, user_request, chat_history, filters, rephrased,
                   response, unique_sources, llm_calls>>
    /\ UNCHANGED <<chat_vars, side_vars>>

\* the retriever raises to the orchestrator, which does not catch it
RetrieverRaises(fault) ==
    /\ pc' = "done"
    /\ result' = Raised("retrieve_documents")
    /\ faults' = faults \cup fault
    /\ UNCHANGED matching_documents

\* the retriever formats the hits and returns them (or raises on a bad hit)
RetrieverReturns(r, fault) ==
    IF r.raised
    THEN RetrieverRaises(fault \cup {"bad_row"})
    ELSE /\ pc' = "retrieved"
         /\ matching_documents' = r.docs
         /\ faults' = faults \cup fault
         /\ UNCHANGED result

ChromaHitLists(e) ==
    IF Impl(e) = "rag_BASF" THEN BasfHitLists ELSE MovieHitLists

ChromaFormat(e, hits) ==
    IF Impl(e) = "rag_BASF"
    THEN [raised |-> FALSE, docs |-> BasfFormat(hits, store_data)]
    ELSE MovieFormat(hits)

ChromaWhere(e, filter_params) ==
    IF Impl(e) = "rag_BASF" THEN BasfWhere(filter_params)
    ELSE MovieWhere(filter_params)

\* one collection.query call with what it answered (None when it raised)
StoreQuery(where, results) ==
    [fn |-> "collection.query", query |-> rephrased, where |-> where,
     n |-> TopN, results |-> results]

\* a retry that sends the where clause again
RetryQueriesKeepFilter(where, results) ==
    <<StoreQuery(where, None), StoreQuery(where, results)>>

\* rag_BASF.py:86-94, rag_retrieval.py:87-95: the failed query and the query
\* sent again without the where clause
RetryQueries(where, results) ==
    <<StoreQuery(where, None), StoreQuery(None, results)>>

\* rag_BASF.retrieve_documents (rag_BASF.py:59-121) and
\* rag_retrieval.retrieve_movies (rag_retrieval.py:44-114): embed the query,
\* query with the where clause, on failure query once more without it if
\* there was one, else re-raise
chroma_retrieve ==
    /\ pc = "retrieving"
    /\ Impl(entry) \in {"rag_BASF", "rag_retrieval"}
    /\ LET where == ChromaWhere(entry, filters)
       IN \/ \* get_embedding raises
             /\ RetrieverRaises({"embedding"})
             /\ UNCHANGED store_queries
          \/ \* the query succeeds
             /\ \E hits \in ChromaHitLists(entry) :
                  /\ store_queries' = Append(store_queries,
                                         StoreQuery(where, Some(hits)))
                  /\ RetrieverReturns(ChromaFormat(entry, hits), {})
          \/ \* the query fails and there was no where clause: raise e
             /\ where = None
             /\ store_queries' = Append(store_queries,
                                    StoreQuery(where, None))
             /\ RetrieverRaises({"store_query"})
          \/ \* the query fails, the query without filters succeeds
             /\ where # None
             /\ \E hits \in ChromaHitLists(entry) :
                  /\ store_queries' = store_queries
                                        \o RetryQueries(where, Some(hits))
                  /\ RetrieverReturns(ChromaFormat(entry, hits),
                                      {"store_query"})
          \/ \* both queries fail
             /\ where # None
             /\ store_queries' = store_queries \o RetryQueries(where, None)
             /\ RetrieverRaises({"store_query", "store_retry"})
    /\ UNCHANGED <<entry, user_request, chat_history, filters, rephrased,
                   response, unique_sources, llm_calls>>
    /\ UNCHANGED <<chat_vars, side_vars>>

\* an orchestrator without the short-circuit: empty results go on to the
\* generator
NoResultsFallThrough ==
    /\ pc = "retrieved"
    /\ matching_documents = <<>>
    /\ pc' = "generating"
    /\ UNCHANGED <<entry, user_request, chat_history, filters, rephrased,
                   matching_documents, response, unique_sources, result,
                   llm_calls, store_queries, faults>>
    /\ UNCHANGED <<chat_vars, side_vars>>

\* postgres_rag.py:213-214, rag_BASF.py:179-180, rag_retrieval.py:178-179
NoResults ==
    /\ pc = "retrieved"
    /\ matching_documents = <<>>
    /\ pc' = "done"
    /\ result' = Returned(IF entry = "movie_rag" THEN NoMoviesMsg
                          ELSE NoInfoMsg, <<>>)
    /\ UNCHANGED <<entry, user_request, chat_history, filters, rephrased,
                   matching_documents, response, unique_sources, llm_calls,
                   store_queries, faults>>
    /\ UNCHANGED <<chat_vars, side_vars>>

\* after a generator: the orchestrator goes on, a direct call returns
AfterGenerate(outcome) ==
    CASE outcome.r = "raise" ->
           /\ pc' = "done"
           /\ result' = Raised("generate")
           /\ faults' = faults \cup outcome.fault
           /\ UNCHANGED response
      [] entry \in Orchestrators ->
           /\ pc' = "collecting"
           /\ response' = outcome.text
           /\ UNCHANGED <<result, faults>>
      [] OTHER ->
           /\ pc' = "done"
           /\ response' = outcome.text
           /\ result' = Returned(outcome.text, <<>>)
           /\ UNCHANGED faults

GenRaise(fault) == [r |-> "raise", fault |-> fault]
GenText(s) == [r |-> "text", text |-> s]

\* one chat completion for the prompt built from query and block
Complete(fn, block) ==
    /\ llm_calls' = Append(llm_calls,
                        [fn |-> fn, query |-> rephrased, block |-> block])
    /\ \E out \in AnswerOutcomes :
         AfterGenerate(IF out.ok THEN GenText(Strip(out.text))
                       ELSE GenRaise({"generate_llm"}))

\* postgres_rag.generate_document_response (postgres_rag.py:147-190)
pg_generate_document_response ==
    /\ \/ pc = "retrieved" /\ matching_documents # <<>>
       \/ pc = "generating"
    /\ Impl(entry) = "postgres_rag"
    /\ IF matching_documents = <<>>
       THEN /\ AfterGenerate(GenText(NoInfoMsg))
            /\ UNCHANGED llm_calls
       ELSE LET b == PgDocBlock(matching_documents)
            IN IF b.raised
               THEN /\ AfterGenerate(GenRaise({"bad_row"}))
                    /\ UNCHANGED llm_calls
               ELSE Complete("generate_document_response", b.block)
    /\ UNCHANGED <<entry, user_request, chat_history, filters, rephrased,
                   matching_documents, unique_sources, store_queries>>
    /\ UNCHANGED <<chat_vars, side_vars>>

\* rag_BASF.generate_document_response (rag_BASF.py:125-163)
basf_generate_document_response ==
    /\ \/ pc = "retrieved" /\ matching_documents # <<>>
       \/ pc = "generating"
    /\ Impl(entry) = "rag_BASF"
    /\ Complete("generate_document_response", BasfDocBlock(matching_documents))
    /\ UNCHANGED <<entry, user_request, chat_history, filters, rephrased,
                   matching_documents, unique_sources, store_queries>>
    /\ UNCHANGED <<chat_vars, side_vars>>

\* rag_retrieval.generate_movie_recommendations (rag_retrieval.py:117-161)
generate_movie_recommendations ==
    /\ pc = "retrieved"
    /\ matching_documents # <<>>
    /\ Impl(entry) = "rag_retrieval"
    /\ Complete("generate_movie_recommendations", MovieBlock(matching_documents))
    /\ UNCHANGED <<entry, user_request, chat_history, filters, rephrased,
                   matching_documents, unique_sources, store_queries>>
    /\ UNCHANGED <<chat_vars, side_vars>>

\* postgres_rag.py:219-229
postgres_rag_return ==
    /\ pc = "collecting"
    /\ entry = "postgres_rag"
    /\ unique_sources' = PgUniqueSources(matching_documents, <<>>)
    /\ result' = Returned(response, unique_sources')
    /\ pc' = "done"
    /\ UNCHANGED <<entry, user_request, chat_history, filters, rephrased,
                   matching_documents, response, llm_calls, store_queries,
                   faults>>
    /\ UNCHANGED <<chat_vars, side_vars>>

\* rag_BASF.py:184-196
document_rag_return ==
    /\ pc = "collecting"
    /\ entry = "document_rag"
    /\ LET u == BasfUniqueSources(matching_documents, <<>>)
       IN IF u.raised
          THEN /\ result' = Raised("document_rag")
               /\ faults' = faults \cup {"unmapped_path"}
               /\ UNCHANGED unique_sources
          ELSE /\ unique_sources' = u.sources
               /\ result' = Returned(response, u.sources)
               /\ UNCHANGED faults
    /\ pc' = "done"
    /\ UNCHANGED <<entry, user_request, chat_history, filters, rephrased,
                   matching_documents, response, llm_calls, store_queries>>
    /\ UNCHANGED <<chat_vars, side_vars>>

\* rag_retrieval.py:182-184
movie_rag_return ==
    /\ pc = "collecting"
    /\ entry = "movie_rag"
    /\ result' = Returned(response, <<>>)
    /\ pc' = "done"
    /\ UNCHANGED <<entry, user_request, chat_history, filters, rephrased,
                   matching_documents, response, unique_sources, llm_calls,
                   store_queries, faults>>
    /\ UNCHANGED <<chat_vars, side_vars>>

\* postgres_rag.py:229, rag_BASF.py:196, rag_retrieval.py:184: the call is
\* over, by return or by exception; its locals are gone and the caller may
\* call again (session then follows the session of the next call)
call_returns ==
    /\ app = "rag"
    /\ pc = "done"
    /\ entry' = "none"
    /\ pc' = "start"
    /\ user_request' = <<>>
    /\ chat_history' = <<>>
    /\ filters' = <<>>
    /\ rephrased' = <<>>
    /\ matching_documents' = <<>>
    /\ response' = <<>>
    /\ unique_sources' = <<>>
    /\ result' = [kind |-> "none"]
    /\ llm_calls' = <<>>
    /\ store_queries' = <<>>
    /\ faults' = {}
    /\ session' = "none"
    /\ UNCHANGED <<app, config, messages, context_block, retrieved_sources,
                   final_response_dict, side_vars>>

OrchNext ==
    \/ call_returns
    \/ CallPostgresRag
    \/ CallChromaRag
    \/ CallGenerate
    \/ Connect
    \/ rephrase_question
    \/ pg_retrieve_documents
    \/ chroma_retrieve
    \/ NoResults
    \/ pg_generate_document_response
    \/ basf_generate_document_response
    \/ generate_movie_recommendations
    \/ postgres_rag_return
    \/ document_rag_return
    \/ movie_rag_return

-----------------------------------------------------------------------------
(* rag_retriever.py: search_vdb results as retrieve_and_format_context     *)
(* reads them: [id, semantic_score, bm25_score, fused_score, filepath,     *)
(* markdown_path, content].                                                *)

IDX_ID == 0
IDX_FUSED_SCORE == 3
IDX_FILEPATH == 4
IDX_MARKDOWN_PATH == 5
IDX_CONTENT == 6
EXPECTED_RESULT_LENGTH == 7

\* hit[idx], Python's 0-based indexing
Col(hit, idx) == hit.cols[idx + 1]

MdA == <<"", "md", "a.md">>
MdA2 == <<"", "md", "a_v2.md">>
MdB == <<"", "md", "b.md">>

VdbRow(kind, id, fused, fp, md, content, ncols) ==
    [kind |-> kind,
     cols |-> SubSeq(<<Some(id), None, None, fused, fp, md, content, None>>,
                     1, ncols)]

VdbHits ==
    { VdbRow("tuple", "101", Some(9), Some(PathA), Some(MdA), Some(<<"x">>), 7),
      VdbRow("list", "102", Some(8), Some(PathA), Some(MdA2), Some(<<"y">>), 7),
      VdbRow("tuple", "103", Some(7), Some(PathB), Some(MdB), Some(<<" ">>), 7),
      VdbRow("tuple", "104", Some(6), Some(PathB), Some(MdB), None, 7),
      VdbRow("tuple", "105", Some(5), Some(PathC), None, Some(<<" ", "z">>), 7),
      VdbRow("tuple", "106", None, Some(PathC), None, Some(<<"w">>), 7),
      VdbRow("tuple", "107", Some(4), Some(PathC), None, Some(<<"v">>), 8),
      [kind |-> "dict"] }

VdbHitLists == UNION { [1..n -> VdbHits] : n \in 0..MaxHits }

Chunk(i, hit) ==
    [kind |-> "chunk",
     index |-> i,
     id |-> Col(hit, IDX_ID),
     score |-> Col(hit, IDX_FUSED_SCORE).v,
     source |-> Col(hit, IDX_FILEPATH),
     content |-> Col(hit, IDX_CONTENT).v]

\* a loop that stores the markdown path of every chunk, so that the last
\* chunk of a document decides the value of its key
RECURSIVE RetrieverFormatLastWins(_, _, _, _)
RetrieverFormatLastWins(hits, i, block, sources) ==
    IF i > Len(hits)
    THEN [raised |-> FALSE, block |-> block, sources |-> sources]
    ELSE
      LET hit == hits[i]
      IN IF hit.kind \in {"list", "tuple"}
            /\ Len(hit.cols) = EXPECTED_RESULT_LENGTH
         THEN LET filepath == Col(hit, IDX_FILEPATH)
                  markdown_path == Col(hit, IDX_MARKDOWN_PATH)
                  content == Col(hit, IDX_CONTENT)
              IN IF content # None /\ Strip(content.v) # <<>>
                 THEN IF Col(hit, IDX_FUSED_SCORE) = None
                      THEN [raised |-> TRUE, block |-> <<>>, sources |-> <<>>]
                      ELSE RetrieverFormatLastWins(hits, i + 1,
                             Append(block, Chunk(i, hit)),
                             IF HasKey(sources, filepath)
                             THEN [n \in 1..Len(sources) |->
                                     IF sources[n][1] = filepath
                                     THEN <<filepath, markdown_path>>
                                     ELSE sources[n]]
                             ELSE Insert(sources, filepath, markdown_path))
                 ELSE RetrieverFormatLastWins(hits, i + 1, block, sources)
         ELSE RetrieverFormatLastWins(hits, i + 1, block, sources)

\* a loop whose failure empties the context block but leaves the sources
\* collected so far
RECURSIVE RetrieverFormatKeepsSources(_, _, _, _)
RetrieverFormatKeepsSources(hits, i, block, sources) ==
    IF i > Len(hits)
    THEN [raised |-> FALSE, block |-> block, sources |-> sources]
    ELSE
      LET hit == hits[i]
      IN IF hit.kind \in {"list", "tuple"}
            /\ Len(hit.cols) = EXPECTED_RESULT_LENGTH
         THEN LET filepath == Col(hit, IDX_FILEPATH)
                  markdown_path == Col(hit, IDX_MARKDOWN_PATH)
                  content == Col(hit, IDX_CONTENT)
              IN IF content # None /\ Strip(content.v) # <<>>
                 THEN IF Col(hit, IDX_FUSED_SCORE) = None
                      THEN [raised |-> TRUE, block |-> <<>>,
                            sources |-> sources]
                      ELSE RetrieverFormatKeepsSources(hits, i + 1,
                             Append(block, Chunk(i, hit)),
                             IF ~HasKey(sources, filepath)
                             THEN Insert(sources, filepath, markdown_path)
                             ELSE sources)
                 ELSE RetrieverFormatKeepsSources(hits, i + 1, block, sources)
         ELSE RetrieverFormatKeepsSources(hits, i + 1, block, sources)

\* rag_retriever.py:102-128: the loop over search_results; i is the 1-based
\* position of the hit (enumerate's i + 1).  Formatting a score that is not a
\* number with :.4f raises, which the function's outer except catches.
RECURSIVE RetrieverFormat(_, _, _, _)
RetrieverFormat(hits, i, block, sources) ==
    IF i > Len(hits)
    THEN [raised |-> FALSE, block |-> block, sources |-> sources]
    ELSE
      LET hit == hits[i]
      IN IF hit.kind \in {"list", "tuple"}
            /\ Len(hit.cols) = EXPECTED_RESULT_LENGTH
         THEN LET filepath == Col(hit, IDX_FILEPATH)
                  markdown_path == Col(hit, IDX_MARKDOWN_PATH)
                  content == Col(hit, IDX_CONTENT)
              IN IF content # None /\ Strip(content.v) # <<>>
                 THEN IF Col(hit, IDX_FUSED_SCORE) = None
                      THEN [raised |-> TRUE, block |-> <<>>, sources |-> <<>>]
                      ELSE RetrieverFormat(hits, i + 1,
                             Append(block, Chunk(i, hit)),
                             IF ~HasKey(sources, filepath)
                             THEN Insert(sources, filepath, markdown_path)
                             ELSE sources)
                 ELSE RetrieverFormat(hits, i + 1, block, sources)
         ELSE RetrieverFormat(hits, i + 1, block, sources)

\* the decimal text of a chunk's position, as the chunk header prints it
IndexText(i) ==
    CASE i = 1 -> "1" [] i = 2 -> "2" [] i = 3 -> "3" [] i = 4 -> "4"
      [] OTHER -> "5"

\* a whitespace character of a context block
Ws == [kind |-> "ws"]

\* context_block.strip() is the empty str
IsBlank(block) == \A i \in 1..Len(block) : block[i].kind = "ws"

-----------------------------------------------------------------------------
(* rag_generator.py: the structured response.  A JSON value is an object   *)
(* with optional answer and sources, or something that is not an object;   *)
(* the text the endpoint returns is the serialisation of a value, possibly *)
(* cut off before its end.                                                 *)

JList(items) == [t |-> "list", items |-> items]
JStr == [t |-> "str"]
JsonObj(answer, sources) ==
    [t |-> "object", answer |-> answer, sources |-> sources]
JArray == [t |-> "array"]
Cite(chunk_id, source) == [chunk_id |-> chunk_id, source |-> source]

\* the degraded answers of generate_response_from_context
ErrorDict(answer) == JsonObj(Some(<<answer>>), JList(<<>>))

\* json.loads(raw): a cut-off text raises
JsonLoads(raw) ==
    IF raw.complete THEN [ok |-> TRUE, value |-> raw.doc] ELSE [ok |-> FALSE]

Raw(doc, complete) == [k |-> "text", raw |-> [doc |-> doc, complete |-> complete]]

StructuredOutcomes ==
    { [k |-> "RateLimitError"], [k |-> "APIError"], [k |-> "Exception"],
      Raw(JsonObj(Some(<<"a">>), JList(<<Cite("101", PathA)>>)), TRUE),
      Raw(JsonObj(Some(<<"a">>), JList(<<Cite("1", PathA)>>)), TRUE),
      Raw(JsonObj(Some(<<"a">>), JList(<<Cite("z", PathC)>>)), TRUE),
      Raw(JsonObj(Some(<<"n">>), JList(<<>>)), TRUE),
      Raw(JsonObj(Some(<<"a">>), JList(<<Cite("101", PathA)>>)), FALSE),
      Raw(JsonObj(Some(<<"a">>), Missing), TRUE),
      Raw(JsonObj(Missing, JStr), TRUE),
      Raw(JArray, TRUE) }

\* rag_generator.py:139-144: what each failure of the try block returns
StructuredResult(out) ==
    CASE out.k = "RateLimitError" -> ErrorDict("Error: Rate limit exceeded.")
      [] out.k = "APIError" -> ErrorDict("API Error: {e}")
      [] out.k = "Exception" -> ErrorDict("Unexpected error: {e}")
      [] OTHER -> LET j == JsonLoads(out.raw)
                  IN IF j.ok THEN j.value
                     ELSE ErrorDict("Unexpected error: {e}")

-----------------------------------------------------------------------------
(* tab1/chat.py: the chat page *)

\* chat_history[-6:]
HistoryTurns == 6
\* num_chunks of the chat page's retrieve_and_format_context call
NumChunks == 3
\* prior question/answer exchanges a session may already hold
MaxPriorTurns == 3

Lower(c) ==
    CASE c = "C" -> "c" [] c = "R" -> "r" [] c = "E" -> "e"
      [] c = "A" -> "a" [] c = "T" -> "t" [] OTHER -> c

\* str.lower()
LowerStr(s) == [i \in 1..Len(s) |-> Lower(s[i])]

\* s.startswith(prefix)
StartsWith(s, prefix) ==
    Len(s) >= Len(prefix) /\ SubSeq(s, 1, Len(prefix)) = prefix

\* a test for the command that neither trims nor lower-cases the input
IsCreateVerbatim(user_input) ==
    StartsWith(user_input, <<"c", "r", "e", "a", "t", "e">>)

\* chat.py:207
IsCreate(user_input) ==
    StartsWith(LowerStr(Strip(user_input)), <<"c", "r", "e", "a", "t", "e">>)

UserInputs ==
    { <<"q", "?">>,
      <<" ", "C", "r", "E", "a", "t", "e", " ", "x">>,
      <<"c", "r", "e", "a", "m">> }

UserMsg(content) == [role |-> "user", content |-> content]
AssistantMsg(content, sources) ==
    [role |-> "assistant", content |-> content, sources |-> sources]
ChartMsg(content, chart_data) ==
    [role |-> "assistant", content |-> content, sources |-> <<>>,
     chart_data |-> chart_data]

\* chat.py:139-141
HelloMsg ==
    AssistantMsg(<<"Hello! How can I help you with your BASF documents?">>, <<>>)

RECURSIVE PriorTurns(_)
PriorTurns(k) ==
    IF k = 0 THEN <<HelloMsg>>
    ELSE PriorTurns(k - 1)
           \o <<UserMsg(<<"p", "?">>),
                AssistantMsg(<<"a">>, <<Cite("101", PathA)>>)>>

\* the session histories a chat page can hold when an input arrives
SessionHistories == { PriorTurns(k) : k \in 0..MaxPriorTurns }

Max(a, b) == IF a >= b THEN a ELSE b

\* chat.py:282-288: role and content of every message before the new user
\* input, then the last six of them
ChatHistory(msgs) ==
    LET before == SubSeq(msgs, 1, Len(msgs) - 1)
        kept == SelectSeq(before, LAMBDA m : m.role \in {"user", "assistant"})
        turns == [i \in 1..Len(kept) |->
                    [role |-> kept[i].role, content |-> kept[i].content]]
    IN SubSeq(turns, Max(1, Len(turns) - HistoryTurns + 1), Len(turns))

\* the import-time flags: OPENAI_AVAILABLE (rag_generator.py:21-35);
\* INIT_DB_AVAILABLE and SEARCH_AVAILABLE (rag_retriever.py:35-47: "ok" both
\* imports worked, "no_init" the first failed and both flags are False,
\* "no_search" only the second failed, which leaves INIT_DB_AVAILABLE
\* unassigned); RETRIEVER_AVAILABLE and GENERATOR_AVAILABLE (chat.py:61-78);
\* STATS_FUNCTION_AVAILABLE (chat.py:91-99)
AllAvailable == [openai |-> TRUE, vdb |-> "ok", rag |-> TRUE, stats |-> TRUE]

Configs ==
    { AllAvailable,
      [AllAvailable EXCEPT !.openai = FALSE],
      [AllAvailable EXCEPT !.vdb = "no_init"],
      [AllAvailable EXCEPT !.vdb = "no_search"],
      [AllAvailable EXCEPT !.rag = FALSE],
      [AllAvailable EXCEPT !.stats = FALSE] }

\* context blocks a caller may pass to the generator directly
DirectContexts ==
    { <<>>, <<Ws>>, <<Ws, Ws>> }
      \cup { RetrieverFormat(<<h>>, 1, <<>>, <<>>).block : h \in VdbHits }

RagInit ==
    /\ Idle
    /\ app = "rag"
    /\ config = AllAvailable
    /\ messages = <<>>
    /\ taken = {}

ChatInit ==
    /\ Idle
    /\ app = "chat"
    /\ config \in Configs
    /\ messages \in SessionHistories
    /\ taken = {}

orch_locals == <<filters, rephrased, matching_documents, response,
                 unique_sources>>

\* a caller invokes retrieve_and_format_context(query, num_chunks=3)
CallRetrieve ==
    /\ app = "chat"
    /\ pc = "start"
    /\ messages = <<HelloMsg>>
    /\ entry' = "retrieve_and_format_context"
    /\ \E q \in UserQuestions : user_request' = q
    /\ pc' = "retrieving_ctx"
    /\ UNCHANGED <<chat_history, result, llm_calls, store_queries, faults,
                   config, messages, context_block, retrieved_sources,
                   final_response_dict, session, app>>
    /\ UNCHANGED <<orch_locals, side_vars>>

\* a caller invokes generate_response_from_context(query, context_block)
CallGenerateStructured ==
    /\ app = "chat"
    /\ pc = "start"
    /\ messages = <<HelloMsg>>
    /\ entry' = "generate_response_from_context"
    /\ \E q \in UserQuestions : user_request' = q
    /\ \E c \in DirectContexts : context_block' = c
    /\ pc' = "generating_ctx"
    /\ UNCHANGED <<chat_history, result, llm_calls, store_queries, faults,
                   config, messages, retrieved_sources, final_response_dict,
                   session, app>>
    /\ UNCHANGED <<orch_locals, side_vars>>

\* chat.py:202-207: the user submits an input; it is appended to the history
chat_input ==
    /\ app = "chat"
    /\ pc = "start"
    /\ entry' = "render_main_app"
    /\ \E u \in UserInputs :
         /\ user_request' = u
         /\ messages' = Append(messages, UserMsg(u))
         /\ pc' = IF IsCreate(u) THEN "create" ELSE "rag"
    /\ UNCHANGED <<chat_history, result, llm_calls, store_queries, faults,
                   config, context_block, retrieved_sources,
                   final_response_dict, session, app>>
    /\ UNCHANGED <<orch_locals, side_vars>>

\* chat.py:208-249: the 'Create' command
create_command ==
    /\ pc = "create"
    /\ IF ~config.stats
       THEN messages' = Append(messages, AssistantMsg(
              <<"Sorry, the statistics function (from db_stats_provider) is currently unavailable.">>,
              <<>>))
       ELSE \E counts \in {"some", "empty", "None", "raise"} :
              messages' = Append(messages,
                CASE counts = "some" -> ChartMsg(
                       <<"Okay, here is the file extension distribution from the database:">>,
                       Some("series"))
                  [] counts = "empty" -> ChartMsg(
                       <<"Found no files with extensions in the database to plot.">>,
                       None)
                  [] counts = "None" -> ChartMsg(
                       <<"Sorry, I could not retrieve the necessary data from the database to create the chart.">>,
                       None)
                  [] OTHER -> ChartMsg(
                       <<"Sorry, an unexpected error occurred while trying to generate the chart.">>,
                       None))
    /\ pc' = "done"
    /\ UNCHANGED <<entry, user_request, chat_history, result, llm_calls,
                   store_queries, faults, config, context_block,
                   retrieved_sources, final_response_dict, session, app>>
    /\ UNCHANGED <<orch_locals, side_vars>>

\* chat.py:253-259
rag_unavailable ==
    /\ pc = "rag"
    /\ ~config.rag
    /\ messages' = Append(messages, AssistantMsg(
         <<"Sorry, I cannot process your request right now due to a system configuration issue.">>,
         <<>>))
    /\ pc' = "done"
    /\ UNCHANGED <<entry, user_request, chat_history, result, llm_calls,
                   store_queries, faults, config, context_block,
                   retrieved_sources, final_response_dict, session, app>>
    /\ UNCHANGED <<orch_locals, side_vars>>

\* retrieve_and_format_context returns (block, sources) to its caller
RetrieveReturns(block, sources) ==
    /\ context_block' = block
    /\ retrieved_sources' = sources
    /\ IF entry = "render_main_app"
       THEN /\ pc' = "retrieved_ctx"
            /\ UNCHANGED result
       ELSE /\ pc' = "done"
            /\ result' = [kind |-> "returned", context |-> block,
                          sources |-> sources]

\* rag_retriever.py:51-151; the chat page calls it inside its try block
\* (chat.py:263-267)
retrieve_and_format_context ==
    /\ \/ pc = "rag" /\ config.rag
       \/ pc = "retrieving_ctx"
    /\ \/ \* INIT_DB_AVAILABLE is unassigned: NameError at line 74
          /\ config.vdb = "no_search"
          /\ IF entry = "render_main_app"
             THEN pc' = "except" /\ UNCHANGED result
             ELSE pc' = "done" /\ result' = Raised("retrieve_and_format_context")
          /\ UNCHANGED <<context_block, retrieved_sources, session,
                         store_queries, faults>>
       \/ \* lines 74-76
          /\ config.vdb = "no_init"
          /\ RetrieveReturns(<<>>, <<>>)
          /\ UNCHANGED <<session, store_queries, faults>>
       \/ \* init_vector_db raises, or returns no engine (lines 82-86, 136-140)
          /\ config.vdb = "ok"
          /\ RetrieveReturns(<<>>, <<>>)
          /\ faults' = faults \cup {"connect"}
          /\ UNCHANGED <<session, store_queries>>
       \/ \* connected; search_vdb raises (lines 92-98)
          /\ config.vdb = "ok"
          /\ store_queries' = Append(store_queries,
                                SearchVdb(user_request, NumChunks, None))
          /\ RetrieveReturns(<<>>, <<>>)
          /\ faults' = faults \cup {"search"}
          /\ \E active \in BOOLEAN :
               session' = IF active THEN "closed" ELSE "open"
       \/ \* connected; search_vdb returns hits (lines 102-134)
          /\ config.vdb = "ok"
          /\ \E hits \in VdbHitLists :
               LET r == RetrieverFormat(hits, 1, <<>>, <<>>)
               IN /\ store_queries' = Append(store_queries,
                       SearchVdb(user_request, NumChunks, Some(hits)))
                  /\ RetrieveReturns(r.block, r.sources)
                  /\ faults' = IF r.raised THEN faults \cup {"bad_row"}
                               ELSE faults
          /\ \E active \in BOOLEAN :
               session' = IF active THEN "closed" ELSE "open"
    /\ UNCHANGED <<entry, user_request, chat_history, llm_calls, config,
                   messages, final_response_dict, app>>
    /\ UNCHANGED <<orch_locals, side_vars>>

\* chat.py:270-279: no context, no generator call
chat_no_context ==
    /\ pc = "retrieved_ctx"
    /\ entry = "render_main_app"
    /\ context_block = <<>>
    /\ final_response_dict' = JsonObj(
         Some(<<"I couldn't find relevant information in the documents to answer that specific query.">>),
         JList(<<>>))
    /\ pc' = "append"
    /\ UNCHANGED <<entry, user_request, chat_history, result, llm_calls,
                   store_queries, faults, config, messages, context_block,
                   retrieved_sources, session, app>>
    /\ UNCHANGED <<orch_locals, side_vars>>

\* the fault a structured completion outcome amounts to
OutcomeFault(out) ==
    CASE out.k # "text" -> {"generate_llm"}
      [] ~out.raw.complete -> {"malformed_json"}
      [] out.raw.doc.t # "object" -> {"schema"}
      [] out.raw.doc.answer = Missing -> {"schema"}
      [] out.raw.doc.sources = Missing -> {"schema"}
      [] out.raw.doc.sources.t # "list" -> {"schema"}
      [] OTHER -> {}

\* generate_response_from_context hands value to its caller
GenerateReturns(value) ==
    /\ final_response_dict' = value
    /\ IF entry = "render_main_app"
       THEN /\ pc' = "append"
            /\ UNCHANGED result
       ELSE /\ pc' = "done"
            /\ result' = [kind |-> "returned", value |-> value]

\* rag_generator.py:66-144; the chat page calls it with the last six turns
\* (chat.py:281-295)
generate_response_from_context ==
    /\ \/ pc = "retrieved_ctx" /\ entry = "render_main_app"
          /\ context_block # <<>>
       \/ pc = "generating_ctx"
    /\ chat_history' = IF entry = "render_main_app"
                       THEN ChatHistory(messages) ELSE <<>>
    /\ IF ~config.openai
       THEN /\ GenerateReturns(ErrorDict("Error: OpenAI client unavailable."))
            /\ UNCHANGED <<llm_calls, faults>>
       ELSE IF IsBlank(context_block)
       THEN /\ GenerateReturns(
                 ErrorDict("No context available to answer the query."))
            /\ UNCHANGED <<llm_calls, faults>>
       ELSE /\ llm_calls' = Append(llm_calls,
                              [fn |-> "generate_response_from_context",
                               query |-> user_request,
                               block |-> context_block,
                               history |-> chat_history'])
            /\ \E out \in StructuredOutcomes :
                 /\ GenerateReturns(StructuredResult(out))
                 /\ faults' = faults \cup OutcomeFault(out)
    /\ UNCHANGED <<entry, user_request, store_queries, config, messages,
                   context_block, retrieved_sources, session, app>>
    /\ UNCHANGED <<orch_locals, side_vars>>

\* chat.py:297-314: the reply is appended; .get on a value that is not a dict
\* raises AttributeError inside the try block
chat_append ==
    /\ pc = "append"
    /\ IF final_response_dict.t # "object"
       THEN /\ pc' = "except"
            /\ UNCHANGED messages
       ELSE LET assistant_answer ==
                  Get(final_response_dict.answer,
                      Some(<<"Sorry, I encountered an error generating the response.">>)).v
                cited == Get(final_response_dict.sources, JList(<<>>))
                cited_sources == IF cited.t = "list" THEN cited.items ELSE <<>>
            IN /\ messages' = Append(messages,
                                AssistantMsg(assistant_answer, cited_sources))
               /\ pc' = "done"
    /\ UNCHANGED <<entry, user_request, chat_history, result, llm_calls,
                   store_queries, faults, config, context_block,
                   retrieved_sources, final_response_dict, session, app>>
    /\ UNCHANGED <<orch_locals, side_vars>>

\* chat.py:316-323
chat_except ==
    /\ pc = "except"
    /\ messages' = Append(messages, AssistantMsg(
         <<"Sorry, an unexpected error occurred while processing your request.">>,
         <<>>))
    /\ pc' = "done"
    /\ UNCHANGED <<entry, user_request, chat_history, result, llm_calls,
                   store_queries, faults, config, context_block,
                   retrieved_sources, final_response_dict, session, app>>
    /\ UNCHANGED <<orch_locals, side_vars>>

-----------------------------------------------------------------------------
(* tab1/postgres_document_search_tab.py: the document search tab.  A       *)
(* message content is a sequence of text pieces; the link lines of the     *)
(* reply are modelled by the file name they show.                          *)

YouPrefix == "**You:** "
PgMarker == "**PostgreSQL Document Search Results**"

\* postgres_document_search_tab.py:65
TabUserMsg(user_input) ==
    [role |-> "user", content |-> <<YouPrefix>> \o user_input]

\* os.path.basename(source)
Basename(p) == p[Len(p)]

\* postgres_document_search_tab.py:78-88
TabAssistantMsg(text, sources) ==
    [role |-> "assistant",
     content |-> <<PgMarker>> \o text \o <<"\n\n">>
                   \o (IF sources = <<>> THEN <<>>
                       ELSE <<"**Unique Source Files Used:**">>
                              \o [i \in 1..Len(sources) |->
                                    Basename(sources[i][1])])]

\* postgres_document_search_tab.py:54-57
TabHelloMsg ==
    [role |-> "assistant",
     content |-> <<"Hello! How can I help you with your BASF documents?">>]

RECURSIVE TabPriorTurns(_)
TabPriorTurns(k) ==
    IF k = 0 THEN <<TabHelloMsg>>
    ELSE TabPriorTurns(k - 1)
           \o <<TabUserMsg(<<"p", "?">>),
                TabAssistantMsg(<<"a">>, << <<PathA, RealA>> >>)>>

\* the histories the tab's session can hold when an input arrives
TabSessionHistories == { TabPriorTurns(k) : k \in 0..MaxPriorTurns }

\* content.split(marker, 1)[1]
AfterFirst(content, marker) ==
    LET at == CHOOSE i \in 1..Len(content) :
                /\ content[i] = marker
                /\ \A j \in 1..(i - 1) : content[j] # marker
    IN SubSeq(content, at + 1, Len(content))

\* a history that keeps the oldest six entries
OldestTurns(history) == SubSeq(history, 1, Min(HistoryTurns, Len(history)))

\* history[-6:]
LastTurns(history) ==
    SubSeq(history, Max(1, Len(history) - HistoryTurns + 1), Len(history))

\* postgres_document_search_tab.py:29-42
get_chat_history(msgs) ==
    LET history ==
          [i \in 1..Len(msgs) |->
             IF msgs[i].role = "user"
             THEN SelectSeq(msgs[i].content, LAMBDA c : c # YouPrefix)
             ELSE IF \E j \in 1..Len(msgs[i].content) :
                       msgs[i].content[j] = PgMarker
                  THEN AfterFirst(msgs[i].content, PgMarker)
                  ELSE msgs[i].content]
    IN LastTurns(history)

TabInit ==
    /\ Idle
    /\ app = "tab"
    /\ config = AllAvailable
    /\ messages \in TabSessionHistories
    /\ taken = {}

\* postgres_document_search_tab.py:63-75: the input is appended, the history
\* is read and postgres_rag is called with both
tab_input ==
    /\ app = "tab"
    /\ pc = "start"
    /\ entry' = "postgres_rag"
    /\ user_request' = <<"u", "q">>
    /\ messages' = Append(messages, TabUserMsg(user_request'))
    /\ chat_history' = get_chat_history(messages')
    /\ pc' = "connecting"
    /\ UNCHANGED <<result, llm_calls, store_queries, faults, config,
                   context_block, retrieved_sources, final_response_dict,
                   session, app>>
    /\ UNCHANGED <<orch_locals, side_vars>>

\* postgres_document_search_tab.py:77-93: the reply is appended once
\* postgres_rag has returned; an exception of postgres_rag is not caught and
\* ends the handler before this
tab_reply ==
    /\ app = "tab"
    /\ pc = "done"
    /\ result.kind = "returned"
    /\ messages' = Append(messages,
                          TabAssistantMsg(result.answer, result.sources))
    /\ pc' = "replied"
    /\ UNCHANGED <<entry, user_request, chat_history, result, llm_calls,
                   store_queries, faults, config, context_block,
                   retrieved_sources, final_response_dict, session, app>>
    /\ UNCHANGED <<orch_locals, side_vars>>

TabNext ==
    \/ tab_input
    \/ tab_reply

ChatNext ==
    \/ CallRetrieve
    \/ CallGenerateStructured
    \/ chat_input
    \/ create_command
    \/ rag_unavailable
    \/ retrieve_and_format_context
    \/ chat_no_context
    \/ generate_response_from_context
    \/ chat_append
    \/ chat_except

-----------------------------------------------------------------------------
(* simple_file_server.py: the file server picks a port, writes it to the    *)
(* port file and then binds it; the pages read the file to build document   *)
(* URLs.  Other processes may start listening on a port at any moment.      *)

\* simple_file_server.py:12
DEFAULT_PORT == 8069
\* simple_file_server.py:13
MAX_PORT_ATTEMPTS == 10
\* chat.py:110
UiDefaultPort == 8070

\* ports other processes start listening on while run_server runs
MaxRaces == 1

\* range(start_port, start_port + max_attempts)
PortRange == DEFAULT_PORT..(DEFAULT_PORT + MAX_PORT_ATTEMPTS - 1)

Digit == <<"0", "1", "2", "3", "4", "5", "6", "7", "8", "9">>

\* str(n) of a natural number
RECURSIVE DecimalText(_)
DecimalText(n) ==
    IF n < 10 THEN <<Digit[n + 1]>>
    ELSE Append(DecimalText(n \div 10), Digit[(n % 10) + 1])

\* int(text) of a decimal text
RECURSIVE ParseInt(_)
ParseInt(text) ==
    IF text = <<>> THEN 0
    ELSE ParseInt(SubSeq(text, 1, Len(text) - 1)) * 10
           + ((CHOOSE d \in 1..10 : Digit[d] = text[Len(text)]) - 1)

\* chat.py:107-119, postgres_document_search_tab.py:17-26: the port a page
\* puts into its document URLs
get_file_server_port(file) ==
    IF file = None THEN UiDefaultPort ELSE ParseInt(file.v)

\* everything of the query pipeline and the chat pages but pc and app
call_state == <<entry, user_request, chat_history, filters, rephrased,
                matching_documents, response, unique_sources, result,
                llm_calls, store_queries, faults, config, messages,
                context_block, retrieved_sources, final_response_dict,
                session>>

\* the ports already listened on when the server starts: none, the first
\* few of the range, or all of it
InitiallyTaken ==
    { DEFAULT_PORT..(DEFAULT_PORT + k - 1) : k \in 0..MAX_PORT_ATTEMPTS }

ServerInit ==
    /\ Idle
    /\ app = "srv"
    /\ config = AllAvailable
    /\ messages = <<>>
    /\ taken \in InitiallyTaken

\* simple_file_server.py:17-27, 37-41: the first port of the range nothing
\* answers on; sys.exit(1) when there is none
find_available_port ==
    /\ app = "srv"
    /\ pc = "start"
    /\ LET free == PortRange \ taken
       IN IF free = {}
          THEN /\ pc' = "exited"
               /\ UNCHANGED port
          ELSE /\ port' = Some(CHOOSE q \in free : \A r \in free : q <= r)
               /\ pc' = "found"
    /\ UNCHANGED <<port_file, httpd, taken, races>>
    /\ UNCHANGED <<call_state, app, cluster_vars>>

\* simple_file_server.py:29-33, 44
save_port ==
    /\ app = "srv"
    /\ pc = "found"
    /\ port_file' = Some(DecimalText(port.v))
    /\ pc' = "saved"
    /\ UNCHANGED <<port, httpd, taken, races>>
    /\ UNCHANGED <<call_state, app, cluster_vars>>

\* simple_file_server.py:50-51: HTTPServer binds and listens in its
\* constructor; OSError when the port is listened on, which nothing catches
bind_server ==
    /\ app = "srv"
    /\ pc = "saved"
    /\ IF port.v \in taken
       THEN /\ pc' = "failed"
            /\ UNCHANGED httpd
       ELSE /\ httpd' = port
            /\ pc' = "serving"
    /\ UNCHANGED <<port, port_file, taken, races>>
    /\ UNCHANGED <<call_state, app, cluster_vars>>

\* simple_file_server.py:58-61: serve_forever until Ctrl+C
stop_server ==
    /\ app = "srv"
    /\ pc = "serving"
    /\ pc' = "stopped"
    /\ UNCHANGED server_vars
    /\ UNCHANGED <<call_state, app, cluster_vars>>

\* another process starts listening on a port of the range that is free
other_process_binds ==
    /\ app = "srv"
    /\ pc \in {"start", "found", "saved"}
    /\ races < MaxRaces
    /\ \E q \in PortRange \ taken :
         taken' = taken \cup {q}
    /\ races' = races + 1
    /\ UNCHANGED <<pc, port, port_file, httpd>>
    /\ UNCHANGED <<call_state, app, cluster_vars>>

ServerNext ==
    \/ find_available_port
    \/ save_port
    \/ bind_server
    \/ stop_server
    \/ other_process_binds

-----------------------------------------------------------------------------
(* visualization/movie_clustering.py: the clustering page keeps the result  *)
(* of compute_clusters in st.session_state under a key made of the chosen   *)
(* settings.                                                               *)

\* renders of the clustering page in one session
MaxRenders == 3

\* the settings a render can be made with: (dim_reduction,
\* clustering_method, n_clusters, n_dimensions, sample_size)
ClusterSettings ==
    { [dim_reduction |-> d, clustering_method |-> "kmeans", n_clusters |-> n,
       n_dimensions |-> 2, sample_size |-> z] :
        d \in {"pca", "umap"}, n \in {8, 12}, z \in {None, Some(100)} }

\* movie_clustering.py:337-338: the f-string that names the session key
cluster_data_key(c) ==
    <<"cluster_data_", c.dim_reduction, "_", c.clustering_method, "_">>
      \o DecimalText(c.n_clusters) \o <<"_">> \o DecimalText(c.n_dimensions)
      \o (IF c.sample_size # None /\ c.sample_size.v # 0
          THEN <<"_sample">> \o DecimalText(c.sample_size.v)
          ELSE <<>>)

\* a test that takes a stored failure for a missing result
IsCachedResult(state, key) ==
    /\ HasKey(state, key)
    /\ state[CHOOSE n \in 1..Len(state) : state[n][1] = key][2] # None

\* movie_clustering.py:340: cluster_data_key in st.session_state
IsCached(state, key) == HasKey(state, key)

\* st.session_state[key]
StateGet(state, key) ==
    state[CHOOSE n \in 1..Len(state) : state[n][1] = key][2]

ClusterInit ==
    /\ Idle
    /\ app = "viz"
    /\ config = AllAvailable
    /\ messages = <<>>
    /\ taken = {}

\* movie_clustering.py:282-355 with compute_clusters (183-228), which
\* returns a DataFrame or, on any failure, None
render_movie_clustering_ui ==
    /\ app = "viz"
    /\ renders < MaxRenders
    /\ renders' = renders + 1
    /\ \E c \in ClusterSettings, outcome \in {Some("DataFrame"), None} :
         LET key == cluster_data_key(c)
         IN /\ IF ~IsCached(session_state, key)
               THEN /\ computed' = Append(computed, c)
                    /\ session_state' = Append(session_state, <<key, outcome>>)
               ELSE UNCHANGED <<session_state, computed>>
            /\ shown' = Some([settings |-> c,
                              data |-> StateGet(session_state', key)])
    /\ UNCHANGED <<call_state, app, pc, server_vars>>

ClusterNext ==
    \/ render_movie_clustering_ui

-----------------------------------------------------------------------------

vars == <<orch_vars, chat_vars, side_vars>>

Init == RagInit \/ ChatInit \/ TabInit \/ ServerInit \/ ClusterInit

Next == OrchNext \/ ChatNext \/ TabNext \/ ServerNext \/ ClusterNext

Spec == Init /\ [][Next]_vars

-----------------------------------------------------------------------------
(* Properties *)

RagOrchestrators == {"postgres_rag", "document_rag"}

\* keys holds every element of paths once, in the order of first occurrence
FirstOccurrenceOrder(keys, paths) ==
    LET First(k) == CHOOSE n \in 1..Len(paths) :
                      /\ paths[n] = k
                      /\ \A m \in 1..(n - 1) : paths[m] # k
    IN /\ \A i, j \in 1..Len(keys) : keys[i] = keys[j] => i = j
       /\ {keys[i] : i \in 1..Len(keys)} = {paths[n] : n \in 1..Len(paths)}
       /\ \A i, j \in 1..Len(keys) : i < j => First(keys[i]) < First(keys[j])

\* C1: postgres_rag and document_rag never raise to their caller: when the
\* only things that go wrong are a failed rephraser call, an empty retrieval
\* and a failed generation, a finished call has returned (answer, sources).
C1_OrchestratorNeverRaises ==
    (/\ pc = "done"
     /\ entry \in RagOrchestrators
     /\ faults \subseteq {"rephrase_llm"})
        => result.kind = "returned"

\* C2: whenever the retriever hands postgres_rag or document_rag zero
\* records, the call ends at once with the fixed no-information answer and an
\* empty source map, and no generator completion is made in that run.
C2_NoResultsShortCircuit ==
    /\ [][(/\ pc = "retrieved"
           /\ matching_documents = <<>>
           /\ entry \in RagOrchestrators)
            => (/\ pc' = "done"
                /\ result' = Returned(NoInfoMsg, <<>>)
                /\ llm_calls' = llm_calls)]_vars
    /\ []((/\ entry \in RagOrchestrators
           /\ matching_documents = <<>>)
            => \A k \in 1..Len(llm_calls) :
                 llm_calls[k].fn = "rephrase_question")

C2_Witness ==
    /\ pc = "done"
    /\ entry = "document_rag"
    /\ store_queries # <<>>
    /\ matching_documents = <<>>
    /\ result = Returned(NoInfoMsg, <<>>)
    /\ Len(llm_calls) = 1

\* C3: a generator called with no records (an empty list of documents, or an
\* empty or whitespace-only context block) returns a result without sources
\* and makes no completion call.
C3_EmptyRecordsNoCall ==
    /\ (/\ pc = "done"
        /\ entry \in {"postgres_rag.generate_document_response",
                      "rag_BASF.generate_document_response"}
        /\ matching_documents = <<>>)
         => (/\ llm_calls = <<>>
             /\ result.kind = "returned"
             /\ result.sources = <<>>)
    /\ (/\ pc = "done"
        /\ entry = "generate_response_from_context"
        /\ IsBlank(context_block))
         => (/\ llm_calls = <<>>
             /\ result.kind = "returned"
             /\ result.value.sources = JList(<<>>))

\* C4: every source the structured generator returns, and every source the
\* chat page stores with its reply, cites the id or the position of a chunk
\* of the context block the generator was given.
C4_CitationsFromContext ==
    LET InContext(cite) ==
          \E j \in 1..Len(context_block) :
            /\ context_block[j].kind = "chunk"
            /\ cite.chunk_id \in {context_block[j].id.v,
                                  IndexText(context_block[j].index)}
    IN /\ (/\ pc = "done"
           /\ entry = "generate_response_from_context"
           /\ result.kind = "returned"
           /\ result.value.t = "object"
           /\ result.value.sources # Missing
           /\ result.value.sources.t = "list")
            => \A i \in 1..Len(result.value.sources.items) :
                 InContext(result.value.sources.items[i])
       /\ (/\ pc = "done"
           /\ entry = "render_main_app"
           /\ llm_calls # <<>>)
            => \A i \in 1..Len(messages[Len(messages)].sources) :
                 InContext(messages[Len(messages)].sources[i])

\* C5: when the rephraser call fails, the orchestrator goes on to the
\* retriever with the user's question, unchanged, as the search query.
C5_RephraseFallback ==
    [][(/\ pc = "rephrasing"
        /\ entry \in Orchestrators
        /\ "rephrase_llm" \in faults')
         => (/\ pc' = "retrieving"
             /\ rephrased' = user_request)]_vars

\* C6: the source map built from a list of records has no duplicate keys,
\* holds every source path of the list, and orders its keys by the rank of
\* the first record with each path (postgres_rag's returned map over the
\* retrieved documents, retrieve_and_format_context's map over the chunks of
\* its context block).
C6_SourceMapFirstOccurrence ==
    /\ (/\ pc = "done"
        /\ entry = "postgres_rag"
        /\ result.kind = "returned")
         => FirstOccurrenceOrder(
              Keys(result.sources),
              [i \in 1..Len(matching_documents) |->
                 matching_documents[i].filepath])
    /\ (entry \in {"retrieve_and_format_context", "render_main_app"})
         => FirstOccurrenceOrder(
              Keys(retrieved_sources),
              [i \in 1..Len(context_block) |-> context_block[i].source])

C6_Witness ==
    /\ pc = "done"
    /\ entry = "postgres_rag"
    /\ result.kind = "returned"
    /\ Len(matching_documents) = 3
    /\ matching_documents[1].filepath = matching_documents[3].filepath
    /\ matching_documents[1].filepath # matching_documents[2].filepath
    /\ Keys(result.sources) = <<matching_documents[1].filepath,
                                matching_documents[2].filepath>>

\* C7: the where clause of the first collection query follows the number of
\* conditions built from the filters: none sends no where clause, one sends
\* that condition alone, two or more send the $and of all of them; rating PG
\* with release_year gt 2015 sends the $and of an equality on rating and a
\* $gt on release_year.
C7_FilterExpression ==
    (store_queries # <<>> /\ entry \in {"movie_rag", "document_rag"}) =>
      LET conds == IF entry = "movie_rag" THEN MovieConditions(filters)
                   ELSE BasfConditions(filters)
          where == store_queries[1].where
      IN /\ Len(conds) = 0 => where = None
         /\ Len(conds) = 1 => where = [t |-> "cond", c |-> conds[1]]
         /\ Len(conds) >= 2 => where = [t |-> "and", conds |-> conds]
         /\ (/\ entry = "movie_rag"
             /\ filters = << <<"rating", Lit("PG")>>,
                             <<"release_year", Range(<< <<"gt", 2015>> >>)>> >>)
              => where = [t |-> "and",
                          conds |-> << [key |-> "rating", value |-> Lit("PG")],
                                       [key |-> "release_year",
                                        value |-> Range(<< <<"$gt", 2015>> >>)] >>]

C7_Witness ==
    /\ entry = "movie_rag"
    /\ filters = << <<"rating", Lit("PG")>>,
                    <<"release_year", Range(<< <<"gt", 2015>> >>)>> >>
    /\ store_queries # <<>>
    /\ store_queries[1].where.t = "and"
    /\ Len(store_queries[1].where.conds) = 2

\* C8: every failure of generate_response_from_context (client not
\* configured, rate limit, API error, a response that does not parse as JSON
\* or does not fit the response schema) ends in a returned object with a
\* non-empty answer and an empty sources list, and an unconfigured client
\* makes no completion call.
C8_FailuresDegrade ==
    (/\ pc = "done"
     /\ entry = "generate_response_from_context"
     /\ (faults # {} \/ ~config.openai))
      => /\ result.kind = "returned"
         /\ result.value.t = "object"
         /\ result.value.answer # Missing
         /\ result.value.answer.v # <<>>
         /\ result.value.sources = JList(<<>>)
         /\ (~config.openai => llm_calls = <<>>)

\* C9: when the store cannot be reached, the search fails (the query without
\* filters included) or the embedding call fails, the retriever does not
\* raise: it returns no records, or an empty context block with an empty
\* source map.
C9_RetrieverReturnsEmpty ==
    /\ (/\ entry \in Orchestrators
        /\ faults \cap {"search", "embedding", "store_retry"} # {})
         => (/\ result # Raised("retrieve_documents")
             /\ matching_documents = <<>>)
    /\ (/\ entry = "retrieve_and_format_context"
        /\ pc = "done"
        /\ faults \cap {"connect", "search"} # {})
         => result = [kind |-> "returned", context |-> <<>>,
                      sources |-> <<>>]

\* C10: in the block a generate_document_response sends to the model, the
\* excerpt of the i-th document is the i-th excerpt; a content longer than
\* the cap (500 in postgres_rag, 300 in rag_BASF) gives its first cap
\* characters followed by '...', a content of at most cap characters gives
\* itself with no ellipsis.
C10_ExcerptTruncation ==
    \A k \in 1..Len(llm_calls) :
      (/\ llm_calls[k].fn = "generate_document_response"
       /\ Impl(entry) \in {"postgres_rag", "rag_BASF"}) =>
        LET block == llm_calls[k].block
            cap == IF Impl(entry) = "postgres_rag" THEN 500 ELSE 300
            Content(i) == IF Impl(entry) = "postgres_rag"
                          THEN matching_documents[i].content.v
                          ELSE matching_documents[i].chunk_text
            Source(i) == IF Impl(entry) = "postgres_rag"
                         THEN matching_documents[i].filepath
                         ELSE matching_documents[i].source_file
        IN /\ Len(block) = Len(matching_documents)
           /\ \A i \in 1..Len(block) :
                /\ block[i].index = i
                /\ block[i].source = Source(i)
                /\ Len(Content(i)) > cap =>
                     /\ Len(block[i].content) = cap + 3
                     /\ SubSeq(block[i].content, 1, cap)
                          = SubSeq(Content(i), 1, cap)
                     /\ SubSeq(block[i].content, cap + 1, cap + 3)
                          = <<".", ".", ".">>
                /\ Len(Content(i)) <= cap => block[i].content = Content(i)

C10_Witness ==
    /\ pc = "done"
    /\ entry = "postgres_rag.generate_document_response"
    /\ Len(llm_calls) = 1
    /\ Len(matching_documents) = 3
    /\ Len(matching_documents[1].content.v) = 501
    /\ Len(matching_documents[2].content.v) = 500
    /\ Len(matching_documents[3].content.v) = 499
    /\ Len(llm_calls[1].block[1].content) = 503
    /\ Len(llm_calls[1].block[2].content) = 500

\* C11: when the handling of a submitted input has ended, on whatever path,
\* the session history ends with the user's message followed by exactly one
\* assistant message, whose text is not empty.
C11_EveryInputAnswered ==
    LET n == Len(messages)
        Ended == \/ entry = "render_main_app" /\ pc = "done"
                 \/ app = "tab" /\ pc = "replied"
                 \/ app = "tab" /\ pc = "done" /\ result.kind = "raised"
        Submitted == IF app = "tab" THEN TabUserMsg(user_request)
                     ELSE UserMsg(user_request)
    IN Ended => /\ n >= 2
                /\ messages[n].role = "assistant"
                /\ messages[n].content # <<>>
                /\ messages[n - 1] = Submitted

\* C12: for a session history of n turns, the history handed to the
\* pipeline is the last min(6, n) turns, oldest first (chat page: the role
\* and content of the turns before the new input; search tab: the text of
\* every turn, the new input included, without the "**You:** " prefix and
\* the results heading).
C12_HistorySuffix ==
    /\ (entry = "render_main_app" /\ pc = "append" /\ llm_calls # <<>>) =>
         LET n == Len(messages) - 1
             k == IF n < 6 THEN n ELSE 6
             h == llm_calls[1].history
         IN /\ Len(h) = k
            /\ \A i \in 1..k :
                 h[i] = [role |-> messages[n - k + i].role,
                         content |-> messages[n - k + i].content]
    /\ (app = "tab" /\ pc \notin {"start", "replied"}) =>
         LET n == Len(messages)
             k == IF n < 6 THEN n ELSE 6
         IN /\ Len(chat_history) = k
            /\ \A i \in 1..k :
                 LET m == messages[n - k + i]
                 IN IF m.role = "user"
                    THEN m.content = <<YouPrefix>> \o chat_history[i]
                    ELSE \/ m.content = chat_history[i]
                         \/ m.content = <<PgMarker>> \o chat_history[i]
            /\ \A c \in 1..Len(llm_calls) :
                 llm_calls[c].fn = "rephrase_question"
                   => llm_calls[c].history = chat_history

C12_Witness ==
    /\ entry = "render_main_app"
    /\ pc = "append"
    /\ Len(messages) = 8
    /\ llm_calls # <<>>
    /\ Len(llm_calls[1].history) = 6
    /\ llm_calls[1].history[1].role = "user"

\* C13: no step of the pipeline changes the chat history it was given or the
\* session history of its caller, and a call starts with nothing left over
\* from the call before it.
C13_HistoryUntouched ==
    /\ [][/\ (pc \in {"connecting", "rephrasing", "retrieving", "retrieved",
                      "generating", "collecting"})
               => (chat_history' = chat_history /\ messages' = messages)
          /\ (\/ pc = "rag" /\ config.rag
              \/ pc = "retrieved_ctx" /\ context_block # <<>>
              \/ pc \in {"retrieving_ctx", "generating_ctx"})
               => messages' = messages]_vars
    /\ [](pc = "start" =>
            /\ rephrased = <<>>
            /\ matching_documents = <<>>
            /\ response = <<>>
            /\ unique_sources = <<>>
            /\ context_block = <<>>
            /\ retrieved_sources = <<>>
            /\ llm_calls = <<>>
            /\ store_queries = <<>>)

C13_Witness ==
    /\ app = "tab"
    /\ pc = "replied"
    /\ Len(llm_calls) = 2
    /\ Len(chat_history) = 6
    /\ Len(messages) = 9
    /\ chat_history = get_chat_history(SubSeq(messages, 1, 8))

\* the completion calls rephrase_question has made in this run
RephraseCalls == SelectSeq(llm_calls, LAMBDA c : c.fn = "rephrase_question")

\* C14: rephrase_question makes exactly one completion call per invocation;
\* when that call fails the failure reaches the caller of the orchestrator
\* and no second call is made.
C14_RephraseOneCall ==
    /\ Len(RephraseCalls) <= 1
    /\ (entry \in {"postgres_rag", "document_rag", "movie_rag"}
          /\ pc \notin {"start", "connecting", "rephrasing"}
          /\ "connect" \notin faults)
         => /\ Len(RephraseCalls) = 1
            /\ llm_calls[1].fn = "rephrase_question"
            /\ llm_calls[1].question = user_request
    /\ "rephrase_llm" \in faults
         => /\ pc = "done"
            /\ result = Raised("rephrase_question")
            /\ Len(llm_calls) = 1
            /\ store_queries = <<>>

C14_Witness ==
    /\ entry \in {"postgres_rag", "document_rag", "movie_rag"}
    /\ pc = "done"
    /\ result = Raised("rephrase_question")
    /\ Len(RephraseCalls) = 1

\* C15: a record whose stored source path has no entry in the mapping table
\* (no prefix rewrite applies and no entry of the store file matches it)
\* carries that stored path, unchanged, as its resolved path.
C15_UnmappedPathUnchanged ==
    entry \in RagOrchestrators =>
      \A i \in 1..Len(matching_documents) :
        LET d == matching_documents[i]
        IN IF Impl(entry) = "postgres_rag"
           THEN (/\ ~StartsWithDir(d.filepath, FilefindrPrefix)
                 /\ Truthy(d.filepath)
                 /\ ~HasKey(store_data, d.filepath[Len(d.filepath)]))
                  => d.real_path = d.filepath
           ELSE (\A k \in 1..Len(store_data) :
                    LET e == store_data[k][2]
                    IN ~(/\ e.file_path # Missing
                         /\ e.file_path # None
                         /\ EndsWith(e.file_path.v, d.source_file)))
                  => d.real_path = Some(d.source_file)

\* C16: a retrieve call sends the store at most two queries; there is a
\* second one exactly when the first carried a filter and failed, and the
\* second one carries no filter.
C16_RetryOnceWithoutFilter ==
    LET n == Len(store_queries)
        sent == pc \notin {"start", "connecting", "rephrasing", "retrieving"}
    IN /\ n <= 2
       /\ (n >= 1 /\ Impl(entry) \in {"rag_BASF", "rag_retrieval"}
             /\ store_queries[1].fn = "collection.query")
            => /\ store_queries[1].where = ChromaWhere(entry, filters)
               /\ (store_queries[1].results = None
                     /\ store_queries[1].where # None /\ sent)
                    => n = 2
               /\ (store_queries[1].results = None
                     /\ store_queries[1].where = None)
                    => n = 1
               /\ store_queries[1].results # None => n = 1
       /\ n = 2 => /\ store_queries[1].where # None
                   /\ store_queries[1].results = None
                   /\ store_queries[2].where = None
                   /\ store_queries[2].fn = store_queries[1].fn

C16_Witness ==
    /\ entry \in {"document_rag", "movie_rag"}
    /\ pc = "retrieved"
    /\ Len(store_queries) = 2
    /\ store_queries[1].where # None
    /\ store_queries[2].results # None
    /\ matching_documents # <<>>

\* a is b with some elements left out, the others in b's order
RECURSIVE IsSubsequence(_, _)
IsSubsequence(a, b) ==
    IF a = <<>> THEN TRUE
    ELSE IF b = <<>> THEN FALSE
    ELSE IF Head(a) = Head(b) THEN IsSubsequence(Tail(a), Tail(b))
    ELSE IsSubsequence(a, Tail(b))

\* what identifies a backend hit: the id and the content it carries
HitKey(hit) ==
    CASE app = "chat" ->
           IF hit.kind \in {"list", "tuple"} /\ Len(hit.cols) >= 7
           THEN <<Col(hit, IDX_ID), Col(hit, IDX_CONTENT)>>
           ELSE <<Missing, Missing>>
      [] Impl(entry) = "postgres_rag" ->
           IF hit.kind = "tuple" /\ Len(hit.cols) >= 7
           THEN <<hit.cols[1], hit.cols[7]>>
           ELSE IF hit.kind = "dict"
           THEN <<hit.d.id, Get(hit.d.markdown, Some(<<>>))>>
           ELSE <<Missing, Missing>>
      [] OTHER -> <<hit.id, hit.document>>

\* the same of a record the retriever returned
RecordKey(rec) ==
    CASE app = "chat" -> <<rec.id, Some(rec.content)>>
      [] Impl(entry) = "postgres_rag" -> <<rec.id, rec.content>>
      [] Impl(entry) = "rag_BASF" -> <<rec.id, rec.chunk_text>>
      [] OTHER -> <<rec.id, rec.description>>

\* the records of the retrieve call of this run
ReturnedRecords ==
    IF app = "chat"
    THEN SelectSeq(context_block, LAMBDA c : c.kind = "chunk")
    ELSE matching_documents

\* C17: the records a retriever returns are the backend's hits with some
\* left out, in the backend's order: nothing is re-sorted, repeated or made up.
C17_RecordsKeepBackendOrder ==
    (store_queries # <<>> /\ pc \notin {"start", "retrieving", "retrieving_ctx"})
      => LET last == store_queries[Len(store_queries)]
             hits == IF last.results = None THEN <<>> ELSE last.results.v
         IN /\ Len(ReturnedRecords) <= Len(hits)
            /\ IsSubsequence(
                 [i \in 1..Len(ReturnedRecords) |->
                    RecordKey(ReturnedRecords[i])],
                 [i \in 1..Len(hits) |-> HitKey(hits[i])])

C17_Witness ==
    /\ entry = "postgres_rag"
    /\ pc = "retrieved"
    /\ store_queries # <<>>
    /\ store_queries[1].results # None
    /\ Len(store_queries[1].results.v) = 3
    /\ store_queries[1].results.v[2].kind = "other"
    /\ Len(matching_documents) = 2
    /\ matching_documents[1].id # matching_documents[2].id

\* a hit of the expected shape: a row-tuple with all its columns or a
\* key-value record, with a path and, for the context retriever, a score and
\* a content that is not blank
WellFormedHit(hit) ==
    IF app = "chat"
    THEN /\ hit.kind \in {"list", "tuple"}
         /\ Len(hit.cols) = EXPECTED_RESULT_LENGTH
         /\ Col(hit, IDX_FILEPATH) # None
         /\ Col(hit, IDX_FUSED_SCORE) # None
         /\ Col(hit, IDX_CONTENT) # None
         /\ Strip(Col(hit, IDX_CONTENT).v) # <<>>
    ELSE \/ hit.kind = "tuple" /\ Len(hit.cols) >= 7 /\ hit.cols[6] # None
         \/ hit.kind = "dict" /\ hit.d.filepath \notin {None, Missing}

\* C18: when the backend answers, a malformed hit does not make the retrieve
\* call fail, and every well-formed hit of the same answer is returned.
C18_MalformedHitSkipped ==
    (/\ store_queries # <<>>
     /\ app = "chat" \/ Impl(entry) = "postgres_rag"
     /\ pc \notin {"start", "retrieving", "retrieving_ctx"}
     /\ store_queries[1].results # None)
      => LET hits == store_queries[1].results.v
         IN /\ result # Raised("retrieve_documents")
            /\ \A i \in 1..Len(hits) :
                 WellFormedHit(hits[i])
                   => \E j \in 1..Len(ReturnedRecords) :
                        RecordKey(ReturnedRecords[j]) = HitKey(hits[i])

\* C19: after a retrieve, no excerpt of a block sent to a generator has a
\* content that is empty or only whitespace.
C19_NoBlankContentInContext ==
    store_queries # <<>> =>
      \A k \in 1..Len(llm_calls) :
        LET c == llm_calls[k]
        IN CASE c.fn = "rephrase_question" -> TRUE
             [] c.fn = "generate_response_from_context" ->
                  \A i \in 1..Len(c.block) :
                    c.block[i].kind = "chunk"
                      => Strip(c.block[i].content) # <<>>
             [] OTHER ->
                  \A i \in 1..Len(c.block) : Strip(c.block[i].content) # <<>>

\* the runs that answer a query from the store
QueryRuns == {"postgres_rag", "document_rag", "movie_rag", "render_main_app"}

\* C20: in every query-answering run the rephraser has returned before the
\* store is queried, the generator is called only after the retriever has
\* returned records, and both are given the rephrased query.
C20_RephraseRetrieveGenerate ==
    entry \in QueryRuns =>
      /\ store_queries # <<>> =>
           /\ llm_calls # <<>>
           /\ llm_calls[1].fn = "rephrase_question"
           /\ \A i \in 1..Len(store_queries) :
                store_queries[i].query = rephrased
      /\ \A k \in 1..Len(llm_calls) :
           llm_calls[k].fn # "rephrase_question" =>
             /\ k = 2
             /\ store_queries # <<>>
             /\ store_queries[Len(store_queries)].results # None
             /\ ReturnedRecords # <<>>
             /\ llm_calls[k].query = rephrased

\* the excerpts of a context block, in the order they were written
Excerpts(block) ==
    SelectSeq(block, LAMBDA c : "kind" \notin DOMAIN c \/ c.kind = "chunk")

\* C21: the indices written into a context block are 1..N for its N
\* excerpts, in order, also when hits were skipped.
C21_ChunkIndicesDense ==
    /\ \A j \in 1..Len(Excerpts(context_block)) :
         Excerpts(context_block)[j].index = j
    /\ \A k \in 1..Len(llm_calls) :
         llm_calls[k].fn # "rephrase_question"
           => \A j \in 1..Len(Excerpts(llm_calls[k].block)) :
                Excerpts(llm_calls[k].block)[j].index = j

\* C22: whatever the length of the stored text, an excerpt of a block passed
\* to a model holds at most a fixed number of content characters (here the
\* largest cap any generator of the program applies, with its ellipsis).
C22_ExcerptsBounded ==
    \A k \in 1..Len(llm_calls) :
      llm_calls[k].fn # "rephrase_question"
        => \A j \in 1..Len(Excerpts(llm_calls[k].block)) :
             Len(Excerpts(llm_calls[k].block)[j].content)
               <= PgContentCap + Len(Ellipsis)

\* the range operators a FilterSpec may use
RangeOps == {"gt", "lt", "gte", "lte"}

\* every range operator of the filter is one of gt, lt, gte, lte
KnownOps(filter_params) ==
    \A i \in 1..Len(filter_params) :
      filter_params[i][2].t = "range"
        => \A j \in 1..Len(filter_params[i][2].ops) :
             filter_params[i][2].ops[j][1] \in RangeOps

\* the store conditions of a filter: a range condition per range operator,
\* whatever the field, and an equality condition per literal
RECURSIVE TranslatedConditions(_)
TranslatedConditions(filter_params) ==
    IF filter_params = <<>> THEN <<>>
    ELSE LET key == Head(filter_params)[1]
             value == Head(filter_params)[2]
             rest == TranslatedConditions(Tail(filter_params))
         IN IF value.t = "range"
            THEN RangeConditions(key, value.ops) \o rest
            ELSE <<Cond(key, value)>> \o rest

\* the conditions a where clause holds
WhereConditions(w) ==
    IF w = None THEN <<>>
    ELSE IF w.t = "cond" THEN <<w.c>>
    ELSE w.conds

\* C23: the first query of a retrieve carries, for every entry of the filter,
\* its translation: a range condition for a range value, an equality
\* condition for a literal; none is dropped or sent as it was given.
C23_FilterTranslated ==
    (/\ entry \in {"document_rag", "movie_rag"}
     /\ store_queries # <<>>
     /\ KnownOps(filters))
      => WhereConditions(store_queries[1].where)
           = TranslatedConditions(filters)

\* the value a source map holds for a key
ValueOf(d, k) == d[CHOOSE n \in 1..Len(d) : d[n][1] = k][2]

\* the position of the first element of paths equal to k
FirstWith(paths, k) ==
    CHOOSE n \in 1..Len(paths) :
      paths[n] = k /\ \A m \in 1..(n - 1) : paths[m] # k

\* keys are the paths of the records, each once, and every key holds the
\* resolved path of the first record with that path
FirstRecordWins(map, paths, resolved) ==
    /\ {map[n][1] : n \in 1..Len(map)} = {paths[n] : n \in 1..Len(paths)}
    /\ \A n, m \in 1..Len(map) : map[n][1] = map[m][1] => n = m
    /\ \A n \in 1..Len(map) :
         map[n][2] = resolved[FirstWith(paths, map[n][1])]

\* C24: the keys of a source map are the source paths of the retrieved
\* records, and each key holds the resolved path of the first record with
\* that source path (postgres_rag: real_path; retrieve_and_format_context:
\* the markdown path of the hit the chunk was made from).
C24_SourceMapFirstRecordWins ==
    /\ (/\ pc = "done"
        /\ entry = "postgres_rag"
        /\ result.kind = "returned"
        /\ matching_documents # <<>>)
         => FirstRecordWins(
              result.sources,
              [i \in 1..Len(matching_documents) |->
                 matching_documents[i].filepath],
              [i \in 1..Len(matching_documents) |->
                 matching_documents[i].real_path])
    /\ (/\ app = "chat"
        /\ store_queries # <<>>
        /\ store_queries[1].results # None
        /\ pc \notin {"start", "retrieving_ctx"})
         => LET chunks == Excerpts(context_block)
                hits == store_queries[1].results.v
            IN FirstRecordWins(
                 retrieved_sources,
                 [i \in 1..Len(chunks) |-> chunks[i].source],
                 [i \in 1..Len(chunks) |->
                    Col(hits[chunks[i].index], IDX_MARKDOWN_PATH)])

C24_Witness ==
    /\ app = "chat"
    /\ store_queries # <<>>
    /\ Len(Excerpts(context_block)) = 3
    /\ Excerpts(context_block)[1].source = Excerpts(context_block)[2].source
    /\ Excerpts(context_block)[3].source # Excerpts(context_block)[1].source
    /\ Len(retrieved_sources) = 2
    /\ retrieved_sources[1][2] = Some(MdA)
    /\ store_queries[1].results.v[2].cols[6] = Some(MdA2)

\* the inputs that start with 'create' once trimmed and lower-cased
CreateInputs ==
    { <<" ", "C", "r", "E", "a", "t", "e", " ", "x">> }

\* C25: a chat input that starts with 'create' after trimming and
\* lower-casing is handled by the statistics path alone: no store query and
\* no completion call is made for it, and the handler appends exactly one
\* assistant message, with empty sources, whatever the statistics call does.
C25_CreateStatisticsOnly ==
    /\ [](/\ CreateInputs \subseteq UserInputs
          /\ (entry = "render_main_app" /\ user_request \in CreateInputs)
               => /\ pc \in {"create", "done"}
                  /\ llm_calls = <<>>
                  /\ store_queries = <<>>
                  /\ pc = "create"
                       => messages[Len(messages)] = UserMsg(user_request)
                  /\ pc = "done"
                       => /\ messages[Len(messages)].role = "assistant"
                          /\ messages[Len(messages)].sources = <<>>
                          /\ messages[Len(messages) - 1]
                               = UserMsg(user_request))
    /\ [][(entry = "render_main_app" /\ user_request \in CreateInputs)
            => /\ pc = "create"
               /\ pc' = "done"
               /\ messages' = Append(messages, messages'[Len(messages')])]_vars

C25_Witness ==
    /\ entry = "render_main_app"
    /\ user_request \in CreateInputs
    /\ pc = "done"
    /\ config.stats
    /\ messages[Len(messages)].content
         = <<"Sorry, an unexpected error occurred while trying to generate the chart.">>

\* a context block and a source map that go together: both empty or both
\* not, and every key the source path of a chunk of the block
BlockMatchesSources(block, sources) ==
    /\ (block = <<>>) <=> (sources = <<>>)
    /\ \A n \in 1..Len(sources) :
         \E j \in 1..Len(Excerpts(block)) :
           Excerpts(block)[j].source = sources[n][1]

\* C26: whatever path retrieve_and_format_context returns by, the context
\* block it returns is empty exactly when the source map is, and every key
\* of the map is the source path of a chunk of the block.
C26_BlockAndSourcesAgree ==
    entry \in {"retrieve_and_format_context", "render_main_app"}
      => /\ BlockMatchesSources(context_block, retrieved_sources)
         /\ (entry = "retrieve_and_format_context"
               /\ pc = "done" /\ result.kind = "returned")
              => /\ result.context = context_block
                 /\ result.sources = retrieved_sources

C26_Witness ==
    /\ entry = "retrieve_and_format_context"
    /\ pc = "done"
    /\ result.kind = "returned"
    /\ "bad_row" \in faults
    /\ Len(store_queries[1].results.v) = 2
    /\ WellFormedHit(store_queries[1].results.v[1])
    /\ result.context = <<>>
    /\ result.sources = <<>>

\* C27: when a pipeline call has ended, by return or by exception, the
\* database session it opened is not open any more.
C27_SessionsClosed ==
    (\/ pc = "done"
     \/ app = "chat" /\ pc \in {"retrieved_ctx", "generating_ctx", "append",
                                "except"})
      => session # "open"

\* C28: with retrieved chunks, the source-map step of document_rag does not
\* fail, and every value of the map it returns is 'Not Available' or a path
\* that begins with '/'.
C28_DocumentRagSourceMap ==
    (entry = "document_rag" /\ pc = "done" /\ matching_documents # <<>>)
      => /\ result # Raised("document_rag")
         /\ result.kind = "returned"
              => \A n \in 1..Len(result.sources) :
                   \/ result.sources[n][2] = <<"Not Available">>
                   \/ StartsWithSlash(result.sources[n][2])

\* C29: once run_server has bound its port or failed to, a port number in
\* the port file is the port this server is bound to, so the port a page
\* reads from the file reaches this server.
C29_PortFileIsServed ==
    (app = "srv" /\ pc \in {"serving", "failed"} /\ port_file # None)
      => /\ httpd # None
         /\ httpd.v = get_file_server_port(port_file)

\* C30: in one session compute_clusters runs at most once for each
\* combination of settings; a render with settings already seen shows the
\* stored result without computing, also when that result is None.
C30_ClustersComputedOnce ==
    /\ \A i, j \in 1..Len(computed) : computed[i] = computed[j] => i = j
    /\ Len(session_state) = Len(computed)
    /\ \A i \in 1..Len(computed) :
         session_state[i][1] = cluster_data_key(computed[i])
    /\ Len(computed) <= renders
    /\ shown # None
         => \E i \in 1..Len(computed) :
              /\ computed[i] = shown.v.settings
              /\ session_state[i][2] = shown.v.data

C30_Witness ==
    /\ renders = 3
    /\ Len(computed) = 1
    /\ session_state[1][2] = None
    /\ shown # None
    /\ shown.v.settings = computed[1]
    /\ shown.v.data = None

=============================================================================
